---- MODULE Spec2Model ----
(***************************************************************************)
(* Cloud Highway One: the latency table (CloudHighwayOne), the result      *)
(* cache table (CloudHighwayOneCache), the prober that writes the latency  *)
(* table and the read handlers of the API (getLatency, getBestDstRegion,   *)
(* getAllDstRegion).                                                       *)
(*                                                                         *)
(* Strings are modelled as sequences of tokens: "aws@r2" is the sequence   *)
(* <<"aws", "@", "r2">>, the empty string is << >>.  split, join,          *)
(* toLowerCase, JSON.stringify and JSON.parse work on these sequences.     *)
(* A ping is a JavaScript value: a number (a natural number here) or the   *)
(* string 'DOWN', which is encoded as the integer DOWN.                    *)
(***************************************************************************)
EXTENDS Integers, Sequences, FiniteSets, TLC

VARIABLES
  store,   \* table CloudHighwayOne: <<srcRegion, dstRegion>> -> ping
  cache,   \* table CloudHighwayOneCache: key -> item
  now,     \* Math.floor(Date.now() / 1000)
  ticks,   \* the clock advances made
  epoch,   \* the prober updates made
  req      \* the invocation of a handler in each lambda instance

vars == <<store, cache, now, ticks, epoch, req>>

----------------------------------------------------------------------------
(* Bounds of the model *)

\* number of docClient.update calls of the prober in one behaviour
MaxProbeWrites == 1

\* number of clock advances in one behaviour
MaxTicks == 1

----------------------------------------------------------------------------
(* JavaScript values *)

\* the string 'DOWN' the ICMP prober writes for a host that is not alive
DOWN == -1

\* Number('DOWN'): not a number; every comparison with it is false
NaN == -2

\* undefined, the value of the property ping of an object that has none
NoPing == -3

\* Number.MAX_VALUE, larger than every ping
Number_MAX_VALUE == 1000000

\* a conversion that takes 'DOWN' for the number 0
Number_DownIsZero(x) == IF x = DOWN THEN 0 ELSE IF x = NoPing THEN NaN ELSE x

\* Number(x) of a ping read from the table or parsed from the cache
Number(x) == IF x \in {DOWN, NoPing} THEN NaN ELSE x

\* a < b of two JavaScript numbers
LessThan(a, b) == a # NaN /\ b # NaN /\ a < b

\* undefined / null of a string-valued variable or parameter; it is falsy,
\* like the empty string
Undefined == <<"<undefined>">>

Falsy(s) == s = Undefined \/ s = <<>>

\* String.prototype.toLowerCase, token by token
LowerToken(t) ==
  CASE t = "AWS" -> "aws"
    [] t = "R1" -> "r1"
    [] t = "R2" -> "r2"
    [] OTHER -> t

toLowerCase(s) == [i \in 1..Len(s) |-> LowerToken(s[i])]

\* String.prototype.split(sep): the pieces of s between the separators
RECURSIVE SplitFrom(_, _, _, _)
SplitFrom(s, sep, i, piece) ==
  IF i > Len(s) THEN <<piece>>
  ELSE IF s[i] = sep THEN <<piece>> \o SplitFrom(s, sep, i + 1, <<>>)
  ELSE SplitFrom(s, sep, i + 1, Append(piece, s[i]))

split(s, sep) == SplitFrom(s, sep, 1, <<>>)

\* Array.prototype.join(sep) of an array of strings
RECURSIVE join(_, _)
join(arr, sep) ==
  IF Len(arr) = 0 THEN <<>>
  ELSE IF Len(arr) = 1 THEN arr[1]
  ELSE arr[1] \o <<sep>> \o join(Tail(arr), sep)

\* the order of the UTF-16 code units of the first characters of the tokens
TokenOrder ==
  <<"+", ",", "@", "AWS", "R1", "R2", "aws", "gcp", "r1", "r2", "r3", "r4", "r5", "r6", "r7", "r9">>

TokenRank(t) == CHOOSE i \in 1..Len(TokenOrder) : TokenOrder[i] = t

\* a < b of two strings
RECURSIVE StrLess(_, _)
StrLess(a, b) ==
  IF Len(b) = 0 THEN FALSE
  ELSE IF Len(a) = 0 THEN TRUE
  ELSE IF a[1] = b[1] THEN StrLess(Tail(a), Tail(b))
  ELSE TokenRank(a[1]) < TokenRank(b[1])

\* Array.prototype.sort() of an array of strings (insertion into a sorted array)
RECURSIVE InsertSorted(_, _)
InsertSorted(x, arr) ==
  IF Len(arr) = 0 THEN <<x>>
  ELSE IF StrLess(x, arr[1]) THEN <<x>> \o arr
  ELSE <<arr[1]>> \o InsertSorted(x, Tail(arr))

RECURSIVE sort(_)
sort(arr) == IF Len(arr) = 0 THEN <<>> ELSE InsertSorted(arr[1], sort(Tail(arr)))

----------------------------------------------------------------------------
(* constants.js: the region catalog *)

\* regions: provider -> region codes, in declaration order; r1 .. r7 stand
\* for seven region codes of the provider aws (six candidates besides the
\* source are needed to pass the test dstCandidate.length > 5)
regions == [aws |-> <<"r1", "r2", "r3", "r4", "r5", "r6", "r7">>]

\* Object.keys(regions)
Providers == <<"aws">>

\* only involve caching if there are more than 5 candidates
CACHE_MIN_CANDIDATES == 5

\* the candidate limit of getBestDstRegion (batchGet takes up to 100 keys)
MAX_DST_REGION_CANDIDATES == 100

\* minutes a cache entry lives
CACHE_TTL_IN_MINUTES == 30

\* REQUEST_TYPES of constants.js
REQUEST_TYPES ==
  [LatenciesFromOneRegionToMultiRegionCandidates |-> "LatenciesFromOneRegionToMultiRegionCandidates",
   AllData |-> "AllData"]

----------------------------------------------------------------------------
(* helpers.js *)

\* validateProvider(provider): providers.includes(provider)
validateProvider(provider) ==
  \E i \in 1..Len(Providers) : provider = <<Providers[i]>>

\* regions[provider].includes(region), for a valid provider
RegionsInclude(provider, region) ==
  \E i \in 1..Len(regions[provider[1]]) : region = <<regions[provider[1]][i]>>

\* validateRegion throws a TypeError when the provider is valid and the region
\* is undefined (region.toLowerCase())
validateRegionThrows(provider, region) ==
  validateProvider(toLowerCase(provider)) /\ region = Undefined

\* validateRegion(provider, region), when it does not throw
validateRegion(provider, region) ==
  IF validateProvider(toLowerCase(provider))
  THEN RegionsInclude(toLowerCase(provider), toLowerCase(region))
  ELSE FALSE

\* x[i] of an array of strings: undefined past the end
At(arr, i) == IF i <= Len(arr) THEN arr[i] ELSE Undefined

\* validateCandidates(dstCandidateArray); the array is a record
\* [defined, items]: an absent query key gives an undefined array
validateCandidates(dstCandidateArray) ==
  IF ~dstCandidateArray.defined THEN TRUE
  ELSE IF Len(dstCandidateArray.items) > MAX_DST_REGION_CANDIDATES THEN FALSE
  ELSE \A i \in 1..Len(dstCandidateArray.items) :
         LET arraySplittedFromString == split(dstCandidateArray.items[i], "@")
             provider == At(arraySplittedFromString, 1)
             region == At(arraySplittedFromString, 2)
         IN  /\ ~validateRegionThrows(provider, region)
             /\ validateRegion(provider, region)

\* a key made of the candidates in the order given
createCacheKey_NoSort(requestType, original) ==
  IF requestType = REQUEST_TYPES.LatenciesFromOneRegionToMultiRegionCandidates
  THEN toLowerCase(original.src) \o <<"+">> \o toLowerCase(join(original.dst, ","))
  ELSE IF requestType = REQUEST_TYPES.AllData THEN <<"ALL_DATA">>
  ELSE Undefined

\* createCacheKey(requestType, original)
createCacheKey(requestType, original) ==
  IF requestType = REQUEST_TYPES.LatenciesFromOneRegionToMultiRegionCandidates
  THEN toLowerCase(original.src) \o <<"+">> \o toLowerCase(join(sort(original.dst), ","))
  ELSE IF requestType = REQUEST_TYPES.AllData THEN <<"ALL_DATA">>
  ELSE Undefined

\* every name `${provider}@${x}` of one provider, the region itself included
NamesExcept_KeepSelf(provider, codes, region) ==
  [i \in 1..Len(codes) |-> <<provider, "@", codes[i]>>]

\* the names `${provider}@${x}` of one provider that differ from the region
RECURSIVE NamesExcept(_, _, _)
NamesExcept(provider, codes, region) ==
  IF Len(codes) = 0 THEN <<>>
  ELSE LET name == <<provider, "@", codes[1]>>
       IN  (IF name # toLowerCase(region) THEN <<name>> ELSE <<>>)
           \o NamesExcept(provider, Tail(codes), region)

RECURSIVE AllNamesExcept(_, _)
AllNamesExcept(providers, region) ==
  IF Len(providers) = 0 THEN <<>>
  ELSE NamesExcept(providers[1], regions[providers[1]], region)
       \o AllNamesExcept(Tail(providers), region)

\* generateListOfAllRegionsExceptSelf(region)
generateListOfAllRegionsExceptSelf(region) == AllNamesExcept(Providers, region)

----------------------------------------------------------------------------
(* JSON text of the rows {dstRegion, ping} kept in the cache *)

\* the decimal text of the numbers of the model
Digits == <<"1", "2">>

\* the pings a probe measures
PingValues == 1..Len(Digits)

\* JSON text of a ping: a number, or the string "DOWN"
PingText(ping) == IF ping = DOWN THEN "'DOWN'" ELSE Digits[ping]

IsPingText(t) == t = "'DOWN'" \/ \E n \in PingValues : Digits[n] = t

ParsePing(t) == IF t = "'DOWN'" THEN DOWN ELSE CHOOSE n \in PingValues : Digits[n] = t

\* JSON.stringify(x) of a row x = {dstRegion, ping}
JSONstringify(x) == <<"{dstRegion:">> \o x.dstRegion \o <<",ping:", PingText(x.ping), "}">>

\* text is the JSON text of an object {dstRegion, ping}
IsRowText(text) ==
  /\ Len(text) >= 4
  /\ text[1] = "{dstRegion:"
  /\ text[Len(text)] = "}"
  /\ text[Len(text) - 2] = ",ping:"
  /\ IsPingText(text[Len(text) - 1])

\* text is the JSON text of an object {dstRegion} that has no ping
IsRowTextWithoutPing(text) ==
  /\ Len(text) >= 2
  /\ text[1] = "{dstRegion:"
  /\ text[Len(text)] = "}"
  /\ \A i \in 1..Len(text) : text[i] # ",ping:"

\* JSON.parse(text) throws a SyntaxError unless text is the JSON text of an
\* object
JSONparseThrows(text) == ~(IsRowText(text) \/ IsRowTextWithoutPing(text))

\* JSON.parse(text) of the JSON text of an object
JSONparse(text) ==
  IF IsRowText(text)
  THEN [dstRegion |-> SubSeq(text, 2, Len(text) - 3),
        ping |-> ParsePing(text[Len(text) - 1])]
  ELSE [dstRegion |-> SubSeq(text, 2, Len(text) - 1), ping |-> NoPing]

\* arr.map((x) => JSON.stringify(x))
RECURSIVE MapStringify(_)
MapStringify(arr) ==
  IF Len(arr) = 0 THEN <<>> ELSE <<JSONstringify(arr[1])>> \o MapStringify(Tail(arr))

\* the JSON text of the first row only
SerializeRows_FirstOnly(rows) ==
  IF Len(rows) = 0 THEN <<>> ELSE JSONstringify(rows[1])

\* rows.map((x) => JSON.stringify(x)).join('|')
SerializeRows(rows) == join(MapStringify(rows), "|")

----------------------------------------------------------------------------
(* DynamoDB: the table CloudHighwayOne (store) and the table               *)
(* CloudHighwayOneCache (cache)                                            *)

\* f with the item of key k put or replaced
Put(f, k, v) == [x \in DOMAIN f \cup {k} |-> IF x = k THEN v ELSE f[x]]

\* the sort keys (dstRegion) of the rows of one partition (srcRegion)
DstOf(tbl, srcRegion) == {k[2] : k \in {x \in DOMAIN tbl : x[1] = srcRegion}}

\* the strings of a set, in ascending order
RECURSIVE Ascending(_)
Ascending(S) ==
  IF S = {} THEN <<>>
  ELSE LET least == CHOOSE x \in S : \A y \in S \ {x} : StrLess(x, y)
       IN  <<least>> \o Ascending(S \ {least})

\* the items {dstRegion, ping} (ProjectionExpression) of the given sort keys
RowsOf(tbl, srcRegion, dsts) ==
  [i \in 1..Len(dsts) |-> [dstRegion |-> dsts[i], ping |-> tbl[<<srcRegion, dsts[i]>>]]]

\* a query that, given an ExclusiveStartKey, resumes one row too far
QueryRows_ResumeTooFar(tbl, srcRegion, exclusiveStartKey) ==
  LET after == Ascending({d \in DstOf(tbl, srcRegion) :
                            exclusiveStartKey = Undefined \/ StrLess(exclusiveStartKey, d)})
  IN  RowsOf(tbl, srcRegion,
             IF exclusiveStartKey = Undefined \/ Len(after) = 0 THEN after ELSE Tail(after))

\* docClient.query: the rows of the partition in sort-key order, after
\* ExclusiveStartKey when there is one
QueryRows(tbl, srcRegion, exclusiveStartKey) ==
  RowsOf(tbl, srcRegion,
         Ascending({d \in DstOf(tbl, srcRegion) :
                      exclusiveStartKey = Undefined \/ StrLess(exclusiveStartKey, d)}))

\* the elements of a sequence
Range(seq) == {seq[i] : i \in 1..Len(seq)}

\* the orders in which the elements of a set can be listed
RECURSIVE Orders(_)
Orders(S) ==
  IF S = {} THEN {<<>>}
  ELSE UNION {{<<x>> \o o : o \in Orders(S \ {x})} : x \in S}

\* docClient.batchGet rejects an empty key list and a key list with duplicates
BatchGetRejects(keys) == Len(keys) = 0 \/ Cardinality(Range(keys)) # Len(keys)

\* docClient.batchGet: the possible Responses.CloudHighwayOne, the rows found
\* for the keys, in any order
BatchGetResponses(tbl, srcRegion, keys) ==
  {RowsOf(tbl, srcRegion, o) : o \in Orders(Range(keys) \cap DstOf(tbl, srcRegion))}

\* the value of an item that is returned up to and at the second of its ttl
CheckCacheValue_AtTtl(tbl, cacheKey, time) ==
  IF /\ cacheKey \in DOMAIN tbl
     /\ ~Falsy(tbl[cacheKey].value)
     /\ tbl[cacheKey].ttl >= time
  THEN tbl[cacheKey].value
  ELSE Undefined

\* the value checkCacheAsync returns when docClient.get succeeds
CheckCacheValue(tbl, cacheKey, time) ==
  IF /\ cacheKey \in DOMAIN tbl
     /\ ~Falsy(tbl[cacheKey].value)
     /\ tbl[cacheKey].ttl # 0
     /\ tbl[cacheKey].ttl > time
  THEN tbl[cacheKey].value
  ELSE Undefined

\* the ttl writeToCacheAsync gives an item
CacheTtl(time) == time + CACHE_TTL_IN_MINUTES * 60

----------------------------------------------------------------------------
(* api/getBestDstRegion.js: the scans for the row of minimum ping *)

\* one turn of the loop without the test that filters out the source region
ScanRow_NoSelfFilter(row, srcRegionName, acc) ==
  IF LessThan(Number(row.ping), acc.minPing)
  THEN [minPing |-> Number(row.ping), regionOfMinPing |-> row.dstRegion]
  ELSE acc

\* one turn of a loop that compares with <=, so that a later row with the
\* same ping becomes the minimum
ScanRow_OrEqual(row, srcRegionName, acc) ==
  IF /\ row.dstRegion # srcRegionName
     /\ (LessThan(Number(row.ping), acc.minPing) \/ Number(row.ping) = acc.minPing)
  THEN [minPing |-> Number(row.ping), regionOfMinPing |-> row.dstRegion]
  ELSE acc

\* one turn of the loop: a row that is not the source region and whose
\* Number(ping) is below minPing becomes the minimum
ScanRow(row, srcRegionName, acc) ==
  IF row.dstRegion # srcRegionName /\ LessThan(Number(row.ping), acc.minPing)
  THEN [minPing |-> Number(row.ping), regionOfMinPing |-> row.dstRegion]
  ELSE acc

RECURSIVE ScanRows(_, _, _)
ScanRows(rows, srcRegionName, acc) ==
  IF Len(rows) = 0 THEN acc
  ELSE ScanRows(Tail(rows), srcRegionName, ScanRow(rows[1], srcRegionName, acc))

\* let minPing = Number.MAX_VALUE; let regionOfMinPing = null
ScanInit == [minPing |-> Number_MAX_VALUE, regionOfMinPing |-> Undefined]

\* the loop over arrayOfObjects comparing with the provider of the source
\* region instead of its name, so that no row is filtered out
CacheHitScan_CompareProvider(arrayOfObjects, srcRegionName) ==
  ScanRows(arrayOfObjects, At(split(srcRegionName, "@"), 1), ScanInit)

\* the loop over arrayOfObjects of the cache-hit path
CacheHitScan(arrayOfObjects, srcRegionName) ==
  ScanRows(arrayOfObjects, srcRegionName, ScanInit)

\* the loop over response.Responses.CloudHighwayOne of the batchGet path
BatchGetScan(items, srcRegionName) ==
  ScanRows(items, srcRegionName, ScanInit)

\* the loop over response.Items with minPing and regionOfMinPing declared
\* inside the do-while, so that each page starts over
QueryPageScan_ResetPerPage(items, srcRegionName, acc) ==
  ScanRows(items, srcRegionName, ScanInit)

\* the loop over response.Items of one page of the query path
QueryPageScan(items, srcRegionName, acc) ==
  ScanRows(items, srcRegionName, acc)

\* cachedValue.split('|').map((x) => JSON.parse(x)) throws
ParseCachedThrows(cachedValue) ==
  LET pieces == split(cachedValue, "|")
  IN  \E i \in 1..Len(pieces) : JSONparseThrows(pieces[i])

\* cachedValue.split('|').map((x) => JSON.parse(x))
ParseCached(cachedValue) ==
  LET pieces == split(cachedValue, "|")
  IN  [i \in 1..Len(pieces) |-> JSONparse(pieces[i])]

\* the object {dstProvider, dstRegion, ping} of the response of getBestDstRegion
BestResult(result, resultPing) ==
  [dstProvider |-> At(split(result, "@"), 1),
   dstRegion |-> At(split(result, "@"), 2),
   ping |-> resultPing]

----------------------------------------------------------------------------
(* api/getAllDstRegion.js: the rows mapped to the response elements *)

\* the element pushed for a cached row
CacheHitElement(row) ==
  [dstProvider |-> At(split(row.dstRegion, "@"), 1),
   dstRegion |-> At(split(row.dstRegion, "@"), 2),
   ping |-> row.ping]

\* the loop over arrayOfObjects of the cache-hit path
RECURSIVE CacheHitMap(_, _)
CacheHitMap(arrayOfObjects, srcRegionName) ==
  IF Len(arrayOfObjects) = 0 THEN <<>>
  ELSE (IF arrayOfObjects[1].dstRegion # srcRegionName
        THEN <<CacheHitElement(arrayOfObjects[1])>> ELSE <<>>)
       \o CacheHitMap(Tail(arrayOfObjects), srcRegionName)

\* the element pushed for a row of a query page
QueryElement(row) ==
  [dstProvider |-> At(split(row.dstRegion, "@"), 1),
   dstRegion |-> At(split(row.dstRegion, "@"), 1),
   ping |-> row.ping]

\* the loop over response.Items of one page
RECURSIVE QueryPageMap(_, _)
QueryPageMap(items, srcRegionName) ==
  IF Len(items) = 0 THEN <<>>
  ELSE (IF items[1].dstRegion # srcRegionName
        THEN <<QueryElement(items[1])>> ELSE <<>>)
       \o QueryPageMap(Tail(items), srcRegionName)

----------------------------------------------------------------------------
(* The invocations *)

\* the lambda instances; the requests of Spec are served by the first
Procs == {"p1", "p2"}

NoResult == [dstProvider |-> Undefined, dstRegion |-> Undefined, ping |-> NaN]

\* no response yet
NoResponse ==
  [statusCode |-> 0, thrown |-> FALSE, ping |-> NaN, result |-> NoResult, data |-> <<>>,
   body |-> <<>>]

\* { statusCode: 400 } and { statusCode: 500 }
ErrorResponse(code) == [NoResponse EXCEPT !.statusCode = code]

\* the handler ended with an exception it did not catch
Thrown == [NoResponse EXCEPT !.thrown = TRUE]

\* a lambda instance that serves no request; the fields after response record
\* what the response was computed from and take no part in the computation:
\* served is "cache" or "store" for a response computed from rows of that
\* table, "failed" when a call of the latency table failed; dataset is those
\* rows; readEpoch, torn and pages tell when the rows were read; wrote is
\* whether the request put them in the cache; params is the query string;
\* cacheGet and cachePut tell whether checkCacheAsync and writeToCacheAsync
\* were called ("none") and whether their call of the cache table resolved
\* ("ok", "failed")
Idle ==
  [op |-> "none", pc |-> "idle",
   srcRegionName |-> Undefined, dstRegionName |-> Undefined,
   given |-> [defined |-> FALSE, items |-> <<>>],
   dstCandidate |-> <<>>, checkAgainstAll |-> FALSE, cacheKey |-> Undefined,
   lastEvaluatedKey |-> Undefined, responseItemsArray |-> <<>>,
   acc |-> ScanInit, resultArray |-> <<>>,
   response |-> NoResponse,
   served |-> "none", dataset |-> <<>>, readEpoch |-> 0, torn |-> FALSE,
   pages |-> 0, wrote |-> FALSE,
   params |-> <<>>, cacheGet |-> "none", cachePut |-> "none", partitions |-> <<>>]

\* the request is over: the local variables are gone
Done(r, response) ==
  [Idle EXCEPT !.op = r.op, !.pc = "done", !.srcRegionName = r.srcRegionName,
               !.dstRegionName = r.dstRegionName, !.given = r.given,
               !.checkAgainstAll = r.checkAgainstAll, !.cacheKey = r.cacheKey,
               !.response = response, !.served = r.served, !.dataset = r.dataset,
               !.readEpoch = r.readEpoch, !.torn = r.torn, !.pages = r.pages,
               !.wrote = r.wrote, !.params = r.params, !.cacheGet = r.cacheGet,
               !.cachePut = r.cachePut]

\* a handler that answers 200 with what it has when a call on the store fails
StoreFailed_AnswersAnyway(r) ==
  Done([r EXCEPT !.served = "failed"], [ErrorResponse(500) EXCEPT !.statusCode = 200])

\* the catch of a rejected docClient.query, batchGet or scan: return 500
StoreFailed(r) == Done([r EXCEPT !.served = "failed"], ErrorResponse(500))

\* the lambda instance can take a request
Free(p) == req[p].pc = "idle"

\* a handler has just returned; the response is looked at before anything else
\* happens
Responding == \E p \in Procs : req[p].pc = "done"

----------------------------------------------------------------------------
(* The query strings of the requests *)

\* srcProvider and srcRegion of a request for region r1, as the catalog
\* spells it and in upper case
SrcR1 == {<<<<"aws">>, <<"r1">>>>, <<<<"AWS">>, <<"R1">>>>}

\* srcProvider and srcRegion of a request for region r2
SrcR2 == {<<<<"AWS">>, <<"R2">>>>}

\* a region that is not in the catalog, a provider that is not in the
\* catalog, a missing srcProvider, a missing srcRegion
SrcBad ==
  {<<<<"aws">>, <<"r9">>>>, <<<<"gcp">>, <<"r1">>>>, <<Undefined, <<"r1">>>>,
   <<<<"aws">>, Undefined>>}

\* dstProvider and dstRegion of getLatency
DstParams == {<<<<"aws">>, <<"r1">>>>, <<<<"aws">>, <<"R2">>>>, <<<<"aws">>, <<"r3">>>>}

\* a dstRegion that is not in the catalog, a dstProvider that is not in the
\* catalog, a missing dstProvider, a missing dstRegion
DstBad ==
  {<<<<"aws">>, <<"r9">>>>, <<<<"gcp">>, <<"r2">>>>, <<Undefined, <<"r2">>>>,
   <<<<"aws">>, Undefined>>}

Name(code) == <<"aws", "@", code>>

\* the values of multiValueQueryStringParameters.dstCandidate
CandidateParams ==
  {[defined |-> FALSE, items |-> <<>>],
   [defined |-> TRUE, items |-> <<>>],
   [defined |-> TRUE, items |-> <<Name("r3"), Name("r1")>>],
   [defined |-> TRUE, items |-> <<Name("r2"), Name("r3"), Name("r4"), Name("r5"), Name("r6"), Name("r7")>>],
   [defined |-> TRUE, items |-> <<Name("r7"), Name("r6"), Name("r5"), Name("r4"), Name("r3"), Name("r2")>>],
   [defined |-> TRUE, items |-> <<Name("r3"), Name("r1"), Name("r4"), Name("r5"), Name("r6"), Name("r7")>>]}

\* candidate lists that validateCandidates has to refuse: an element without
\* '@', a provider and a region code that are not in the catalog, each after
\* a valid element and before one; a region identifier followed by '@' and
\* more text; and a list of n valid elements, one more than the limit
ManyCandidates(n) == [defined |-> TRUE, items |-> [i \in 1..n |-> Name("r2")]]

CandidateParamsBad ==
  {[defined |-> TRUE, items |-> <<Name("r2"), <<"aws">>>>],
   [defined |-> TRUE, items |-> <<Name("r2"), <<"gcp", "@", "r1">>>>],
   [defined |-> TRUE, items |-> <<Name("r2"), <<"aws", "@", "r9">>>>],
   [defined |-> TRUE, items |-> <<<<"aws", "@", "r9">>, Name("r2")>>],
   [defined |-> TRUE, items |-> <<Name("r3"), <<"aws", "@", "r2", "@", "x">>>>],
   ManyCandidates(MAX_DST_REGION_CANDIDATES + 1)}

\* the acknowledgement getAllData asks for
ACKNOWLEDGEMENT ==
  <<"Yes_I_Understand_This_Operation_Is_Expensive_And_I_Should_Only_Make_The_Request_When_I_Really_Need_It">>

\* the events of getAllData: the acknowledgement, the acknowledgement followed
\* by a space, another text, an empty text, no acknowledgement, and an event
\* without queryStringParameters
AllDataEvents ==
  {[queryStringParameters |-> TRUE, acknowledgement |-> a] :
     a \in {ACKNOWLEDGEMENT, ACKNOWLEDGEMENT \o <<" ">>, <<"yes">>, <<>>, Undefined}}
  \cup {[queryStringParameters |-> FALSE, acknowledgement |-> Undefined]}

\* five candidates, the most that are served without the cache
FiveCandidates ==
  [defined |-> TRUE,
   items |-> <<Name("r2"), Name("r3"), Name("r4"), Name("r5"), Name("r6")>>]

\* six candidates, every region but r1, in catalog order
SixCandidates ==
  [defined |-> TRUE,
   items |-> <<Name("r2"), Name("r3"), Name("r4"), Name("r5"), Name("r6"), Name("r7")>>]

\* the same six candidates in another order, one of them in upper case
SixCandidatesPermuted ==
  [defined |-> TRUE,
   items |-> <<Name("r7"), Name("r3"), <<"AWS", "@", "R2">>, Name("r5"), Name("r6"),
               Name("r4")>>]

\* !srcProvider || !srcRegion || !validateRegion(srcProvider, srcRegion)
BadRegion(provider, region) ==
  Falsy(provider) \/ Falsy(region) \/ ~validateRegion(provider, region)

\* `${provider.toLowerCase()}@${region.toLowerCase()}`
LowerName(provider, region) == toLowerCase(provider) \o <<"@">> \o toLowerCase(region)

\* arr.map((x) => x.toLowerCase())
MapLower(arr) == [i \in 1..Len(arr) |-> toLowerCase(arr[i])]

----------------------------------------------------------------------------
(* cloud-highway-one-aws/ping.js: the prober *)

\* the hosts whose probes come back in the behaviours of the model
ProbedRegions == {"r1", "r2", "r3"}

\* a prober that removes the row of a destination that does not answer
ProberUpdate_DeleteDown(currentRegion, provider, region, value) ==
  LET Key == <<<<"aws", "@", currentRegion>>, <<provider, "@", region>>>>
  IN  /\ ~Responding
      /\ epoch < MaxProbeWrites
      /\ store' = IF value = DOWN
                  THEN [k \in DOMAIN store \ {Key} |-> store[k]]
                  ELSE Put(store, Key, value)
      /\ epoch' = epoch + 1
      /\ UNCHANGED <<cache, now, ticks, req>>

\* docClient.update of the row of one destination: SET #ping = :value
ProberUpdate(currentRegion, provider, region, value) ==
  /\ ~Responding
  /\ epoch < MaxProbeWrites
  /\ store' = Put(store, <<<<"aws", "@", currentRegion>>, <<provider, "@", region>>>>, value)
  /\ epoch' = epoch + 1
  /\ UNCHANGED <<cache, now, ticks, req>>

\* the TCP prober deployed in currentRegion (process.env.AWS_REGION): the
\* callback of tcpp.ping without error writes data.avg
ping(currentRegion) ==
  \E i \in 1..Len(Providers) :
    \E region \in Range(regions[Providers[i]]) \cap ProbedRegions, avg \in PingValues :
      ProberUpdate(currentRegion, Providers[i], region, avg)

\* the ICMP prober deployed in currentRegion: alive ? time : 'DOWN'
pingIcmp(currentRegion) ==
  \E i \in 1..Len(Providers) :
    \E region \in Range(regions[Providers[i]]) \cap ProbedRegions, alive \in BOOLEAN :
      \E time \in (IF alive THEN PingValues ELSE {0}) :
        ProberUpdate(currentRegion, Providers[i], region, IF alive THEN time ELSE DOWN)

\* every region code of the catalog, provider after provider
CatalogDestinations ==
  UNION {{<<Providers[i], "@", c>> : c \in Range(regions[Providers[i]])} :
           i \in 1..Len(Providers)}

\* what the probes of one cycle come back with, destination by destination:
\* tcpp.ping calls back with err, or with data whose avg is 1
TcpOutcomes == [CatalogDestinations -> {[err |-> TRUE, avg |-> 1], [err |-> FALSE, avg |-> 1]}]

\* ping.promise.probe resolves with alive and time 1, or with alive false
IcmpOutcomes == [CatalogDestinations -> {[alive |-> TRUE, time |-> 1], [alive |-> FALSE, time |-> 1]}]

\* the table after the docClient.update calls of one cycle: written maps the
\* destinations that are written to the value of :value
CycleUpdates(tbl, currentRegion, written) ==
  LET src == <<"aws", "@", currentRegion>>
      keys == {<<src, dst>> : dst \in DOMAIN written}
  IN  [k \in DOMAIN tbl \cup keys |-> IF k \in keys THEN written[k[2]] ELSE tbl[k]]

\* one scheduled run of module.exports.ping (PingAllRegions, TCP): for every
\* provider and region a probe, and in its callback a docClient.update of
\* data.avg unless err is set
PingAllRegions(currentRegion) ==
  \E outcome \in TcpOutcomes :
    /\ ~Responding
    /\ epoch < MaxProbeWrites
    /\ LET answered == {dst \in CatalogDestinations : ~outcome[dst].err}
       IN  store' = CycleUpdates(store, currentRegion,
                                 [dst \in answered |-> outcome[dst].avg])
    /\ epoch' = epoch + 1
    /\ UNCHANGED <<cache, now, ticks, req>>

\* one run of the ICMP module.exports: for every provider and region a probe,
\* and when it resolves a docClient.update of alive ? time : 'DOWN'
PingAllRegionsIcmp(currentRegion) ==
  \E outcome \in IcmpOutcomes :
    /\ ~Responding
    /\ epoch < MaxProbeWrites
    /\ store' = CycleUpdates(store, currentRegion,
                             [dst \in CatalogDestinations |->
                                IF outcome[dst].alive THEN outcome[dst].time ELSE DOWN])
    /\ epoch' = epoch + 1
    /\ UNCHANGED <<cache, now, ticks, req>>

\* time passes: up to the last second of a cache entry's life, or past it
Tick ==
  \E d \in {CACHE_TTL_IN_MINUTES * 60 - 1, CACHE_TTL_IN_MINUTES * 60} :
    /\ ~Responding
    /\ ticks < MaxTicks
    /\ now' = now + d
    /\ ticks' = ticks + 1
    /\ UNCHANGED <<store, cache, epoch, req>>

\* the response has been delivered; the lambda instance is free again
Return(p) ==
  /\ req[p].pc = "done"
  /\ req' = [req EXCEPT ![p] = Idle]
  /\ UNCHANGED <<store, cache, now, ticks, epoch>>

----------------------------------------------------------------------------
(* api/getLatency.js *)

\* the key of docClient.get with the source and the destination exchanged
LatencyKey_Swapped(srcProvider, srcRegion, dstProvider, dstRegion) ==
  <<LowerName(dstProvider, dstRegion), LowerName(srcProvider, srcRegion)>>

\* the key of docClient.get
LatencyKey(srcProvider, srcRegion, dstProvider, dstRegion) ==
  <<LowerName(srcProvider, srcRegion), LowerName(dstProvider, dstRegion)>>

\* interRegionalLatency(event): the whole handler, for the source regions
\* Srcs; ok is whether docClient.get resolves
interRegionalLatency(p, Srcs, Dsts) ==
  \E src \in Srcs, dst \in Dsts, ok \in BOOLEAN :
    /\ Free(p)
    /\ LET srcProvider == src[1]
           srcRegion == src[2]
           dstProvider == dst[1]
           dstRegion == dst[2]
           bad == BadRegion(srcProvider, srcRegion) \/ BadRegion(dstProvider, dstRegion)
           key == LatencyKey(srcProvider, srcRegion, dstProvider, dstRegion)
           r == [Idle EXCEPT !.op = "getLatency", !.params = <<src, dst>>,
                             !.srcRegionName = IF bad THEN Undefined
                                               ELSE LowerName(srcProvider, srcRegion),
                             !.dstRegionName = IF bad THEN Undefined
                                               ELSE LowerName(dstProvider, dstRegion),
                             !.served = IF bad THEN "none"
                                        ELSE IF ~ok THEN "failed" ELSE "store"]
       IN  req' = [req EXCEPT ![p] =
             IF bad THEN Done(r, ErrorResponse(400))
             ELSE IF ~ok THEN Done(r, ErrorResponse(500))
             ELSE IF key \notin DOMAIN store THEN Done(r, Thrown)
             ELSE Done(r, [NoResponse EXCEPT !.statusCode = 200, !.ping = store[key]])]
    /\ UNCHANGED <<store, cache, now, ticks, epoch>>

----------------------------------------------------------------------------
(* One page of docClient.query *)

\* a call that never carries an ExclusiveStartKey
ExclusiveStartKeyOf_Never(lastEvaluatedKey) == Undefined

\* lastEvaluatedKey ? paramsToContinue : params; the ExclusiveStartKey of the
\* call, none with params
ExclusiveStartKeyOf(lastEvaluatedKey) ==
  IF Falsy(lastEvaluatedKey) THEN Undefined ELSE lastEvaluatedKey

\* a loop that goes on after every page
LoopsAgain_Always(lastEvaluatedKey) == TRUE

\* } while (lastEvaluatedKey)
LoopsAgain(lastEvaluatedKey) == ~Falsy(lastEvaluatedKey)

\* the pages docClient.query may return for the rows left: all of them and no
\* LastEvaluatedKey, or the first n of them and the key of the last one
QueryPages(rest) ==
  {[Items |-> rest, LastEvaluatedKey |-> Undefined]}
  \cup {[Items |-> SubSeq(rest, 1, n), LastEvaluatedKey |-> rest[n].dstRegion] :
          n \in 1..Len(rest)}

\* what the invocation has read of the table: the epoch of its first read, and
\* whether a later page was read after another prober update
ReadMark(r) ==
  [r EXCEPT !.readEpoch = IF r.pages = 0 THEN epoch ELSE r.readEpoch,
            !.torn = r.pages # 0 /\ (r.torn \/ epoch # r.readEpoch),
            !.pages = r.pages + 1]

\* checkCacheAsync(cacheKey): the value of the entry, or null when there is
\* no valid entry or when docClient.get rejects (ok is whether it resolves)
checkCacheAsync(ok, cacheKey) ==
  IF ok THEN CheckCacheValue(cache, cacheKey, now) ELSE Undefined

\* the item writeToCacheAsync puts
CacheItem(cacheValue) == [value |-> cacheValue, ttl |-> CacheTtl(now)]

\* a put that leaves an item that is already there
WriteToCache_KeepFirst(ok, cacheKey, item) ==
  cache' = IF ok /\ cacheKey \notin DOMAIN cache THEN Put(cache, cacheKey, item) ELSE cache

\* writeToCacheAsync(cacheKey, cacheValue); ok is whether docClient.put resolves
WriteToCache(ok, cacheKey, item) ==
  cache' = IF ok THEN Put(cache, cacheKey, item) ELSE cache

\* what the request records of its call of writeToCacheAsync
PutMark(r, ok) ==
  [r EXCEPT !.wrote = ok, !.cachePut = IF ok THEN "ok" ELSE "failed"]

\* a handler that lets a failure of the cache write end the request
AfterCacheWrite_FailIs500(ok, response) ==
  IF ok THEN response ELSE ErrorResponse(500)

\* the response of a handler after writeToCacheAsync: a rejected docClient.put
\* is logged in writeToCacheAsync and changes nothing
AfterCacheWrite(ok, response) == response

----------------------------------------------------------------------------
(* api/getAllDstRegion.js *)

\* a response that takes an empty resultArray for a failure
AllResponse_EmptyIsError(resultArray) ==
  IF resultArray = <<>> THEN ErrorResponse(500)
  ELSE [NoResponse EXCEPT !.statusCode = 200, !.data = resultArray]

\* { statusCode: 200, body: result }
AllResponse(resultArray) == [NoResponse EXCEPT !.statusCode = 200, !.data = resultArray]

\* the cache-hit path: the cached value parses, and the resultArray built from it
AllHit(cachedValue, srcRegionName) ==
  IF Falsy(cachedValue) \/ ParseCachedThrows(cachedValue)
  THEN [parsed |-> FALSE, arrayOfObjects |-> <<>>, resultArray |-> <<>>]
  ELSE [parsed |-> TRUE, arrayOfObjects |-> ParseCached(cachedValue),
        resultArray |-> CacheHitMap(ParseCached(cachedValue), srcRegionName)]

\* getAllInterRegionalLatenciesFromSourceRegion(event), up to the first
\* docClient.query, for the source regions Srcs; cacheOk, one of Oks, is
\* whether the docClient.get of checkCacheAsync resolves
AllStart(p, Srcs, Oks) ==
  \E src \in Srcs, cacheOk \in Oks :
    /\ Free(p)
    /\ LET srcProvider == src[1]
           srcRegion == src[2]
           bad == BadRegion(srcProvider, srcRegion)
           srcRegionName == LowerName(srcProvider, srcRegion)
           dst == generateListOfAllRegionsExceptSelf(srcRegionName)
           cacheKey == createCacheKey(REQUEST_TYPES.LatenciesFromOneRegionToMultiRegionCandidates,
                                      [src |-> srcRegionName, dst |-> MapLower(dst)])
           cachedValue == checkCacheAsync(cacheOk, cacheKey)
           hit == AllHit(cachedValue, srcRegionName)
           r == [Idle EXCEPT !.op = "getAllDstRegion", !.params = <<src>>,
                             !.cacheGet = IF bad THEN "none"
                                          ELSE IF cacheOk THEN "ok" ELSE "failed",
                             !.srcRegionName = IF bad THEN Undefined ELSE srcRegionName]
       IN  req' = [req EXCEPT ![p] =
             IF bad THEN Done(r, ErrorResponse(400))
             ELSE IF hit.parsed
             THEN Done([r EXCEPT !.served = "cache", !.dataset = hit.arrayOfObjects,
                                 !.cacheKey = cacheKey],
                       AllResponse(hit.resultArray))
             ELSE [r EXCEPT !.pc = "query", !.cacheKey = cacheKey]]
    /\ UNCHANGED <<store, cache, now, ticks, epoch>>

\* one turn of the do-while loop: one docClient.query and the loop over its Items
AllQueryPage(p) ==
  \E ok \in BOOLEAN :
    /\ req[p].op = "getAllDstRegion" /\ req[p].pc = "query"
    /\ IF ~ok
       THEN req' = [req EXCEPT ![p] =
              StoreFailed(req[p])]
       ELSE \E response \in QueryPages(QueryRows(store, req[p].srcRegionName,
                                  ExclusiveStartKeyOf(req[p].lastEvaluatedKey))) :
              req' = [req EXCEPT ![p] =
                [ReadMark(req[p]) EXCEPT
                   !.lastEvaluatedKey = response.LastEvaluatedKey,
                   !.responseItemsArray = req[p].responseItemsArray \o response.Items,
                   !.resultArray = req[p].resultArray
                                   \o QueryPageMap(response.Items, req[p].srcRegionName),
                   !.pc = IF LoopsAgain(response.LastEvaluatedKey) THEN "query" ELSE "cacheWrite"]]
    /\ UNCHANGED <<store, cache, now, ticks, epoch>>

\* after the loop: writeToCacheAsync of the rows read, then the response
AllCacheWrite(p) ==
  \E ok \in BOOLEAN :
    /\ req[p].op = "getAllDstRegion" /\ req[p].pc = "cacheWrite"
    /\ LET r == req[p]
           response == AllResponse(r.resultArray)
       IN  /\ WriteToCache(ok, r.cacheKey, CacheItem(SerializeRows(r.responseItemsArray)))
           /\ req' = [req EXCEPT ![p] =
                Done(PutMark([r EXCEPT !.served = "store",
                                       !.dataset = r.responseItemsArray], ok),
                     AfterCacheWrite(ok, response))]
    /\ UNCHANGED <<store, now, ticks, epoch>>

----------------------------------------------------------------------------
(* api/getBestDstRegion.js *)

\* the end of the handler: returnResult is built with result.split('@') before
\* result is tested, so a null result ends the handler with a TypeError
BestFinish(result, resultPing) ==
  IF result = Undefined THEN Thrown
  ELSE [NoResponse EXCEPT !.statusCode = 200, !.result = BestResult(result, resultPing)]

\* a handler that takes no result from the cached value
BestHit_IgnoreCache(cachedValue, srcRegionName) ==
  [parsed |-> FALSE, arrayOfObjects |-> <<>>, scan |-> ScanInit]

\* the cache-hit path: the scan of the cached rows, when the value parses
BestHit(cachedValue, srcRegionName) ==
  IF Falsy(cachedValue) \/ ParseCachedThrows(cachedValue)
  THEN [parsed |-> FALSE, arrayOfObjects |-> <<>>, scan |-> ScanInit]
  ELSE [parsed |-> TRUE, arrayOfObjects |-> ParseCached(cachedValue),
        scan |-> CacheHitScan(ParseCached(cachedValue), srcRegionName)]

\* a test that lets a list of exactly 5 candidates through
OverCacheMinimum_OrEqual(dstCandidate) == Len(dstCandidate) >= CACHE_MIN_CANDIDATES

\* dstCandidate.length > 5
OverCacheMinimum(dstCandidate) == Len(dstCandidate) > CACHE_MIN_CANDIDATES

\* if (!dstCandidate): an undefined array is falsy, an empty array is not
NoCandidates(dstCandidate) == ~dstCandidate.defined

\* getBestDestinationRegionFromSourceRegion(event), up to the first read of
\* the table, for the source regions Srcs and the candidate lists Cands;
\* cacheOk, one of Oks, is whether the docClient.get of checkCacheAsync
\* resolves
BestStart(p, Srcs, Cands, Oks) ==
  \E src \in Srcs, given \in Cands, cacheOk \in Oks :
    /\ Free(p)
    /\ LET srcProvider == src[1]
           srcRegion == src[2]
           bad == BadRegion(srcProvider, srcRegion) \/ ~validateCandidates(given)
           srcRegionName == LowerName(srcProvider, srcRegion)
           useCache == NoCandidates(given) \/ OverCacheMinimum(given.items)
           checkAgainstAll == NoCandidates(given)
           dstCandidate == IF NoCandidates(given)
                           THEN generateListOfAllRegionsExceptSelf(srcRegionName)
                           ELSE given.items
           cacheKey == IF useCache
                       THEN createCacheKey(
                              REQUEST_TYPES.LatenciesFromOneRegionToMultiRegionCandidates,
                              [src |-> srcRegionName, dst |-> MapLower(dstCandidate)])
                       ELSE Undefined
           cachedValue == IF useCache THEN checkCacheAsync(cacheOk, cacheKey)
                          ELSE Undefined
           hit == BestHit(cachedValue, srcRegionName)
           result == hit.scan.regionOfMinPing
           r == [Idle EXCEPT !.op = "getBestDstRegion", !.given = given,
                             !.params = <<src>>,
                             !.cacheGet = IF bad \/ ~useCache THEN "none"
                                          ELSE IF cacheOk THEN "ok" ELSE "failed",
                             !.srcRegionName = IF bad THEN Undefined ELSE srcRegionName]
       IN  req' = [req EXCEPT ![p] =
             IF bad THEN Done(r, ErrorResponse(400))
             ELSE IF result # Undefined
             THEN Done([r EXCEPT !.checkAgainstAll = checkAgainstAll,
                                 !.served = "cache", !.dataset = hit.arrayOfObjects,
                                 !.cacheKey = cacheKey],
                       BestFinish(result, hit.scan.minPing))
             ELSE [r EXCEPT !.pc = IF checkAgainstAll THEN "query" ELSE "batchGet",
                            !.checkAgainstAll = checkAgainstAll,
                            !.dstCandidate = dstCandidate,
                            !.cacheKey = cacheKey]]
    /\ UNCHANGED <<store, cache, now, ticks, epoch>>

\* the batchGet path: docClient.batchGet of the candidates and the loop over
\* the rows found; ok is whether batchGet resolves
BestBatchGet(p) ==
  \E ok \in BOOLEAN :
    /\ req[p].op = "getBestDstRegion" /\ req[p].pc = "batchGet"
    /\ LET r == req[p]
           keys == MapLower(r.dstCandidate)
       IN  IF ~ok \/ BatchGetRejects(keys)
           THEN req' = [req EXCEPT ![p] =
                  StoreFailed(r)]
           ELSE \E items \in BatchGetResponses(store, r.srcRegionName, keys) :
                  LET scan == BatchGetScan(items, r.srcRegionName)
                      result == scan.regionOfMinPing
                      read == [ReadMark(r) EXCEPT !.served = "store", !.dataset = items]
                  IN  req' = [req EXCEPT ![p] =
                        IF result # Undefined /\ OverCacheMinimum(r.dstCandidate)
                        THEN [read EXCEPT !.pc = "cacheWrite", !.acc = scan,
                                          !.responseItemsArray = items]
                        ELSE Done(read, BestFinish(result, scan.minPing))]
    /\ UNCHANGED <<store, cache, now, ticks, epoch>>

\* the query path: one turn of the do-while loop, one docClient.query and the
\* loop over its Items; after the last page, result = regionOfMinPing
BestQueryPage(p) ==
  \E ok \in BOOLEAN :
    /\ req[p].op = "getBestDstRegion" /\ req[p].pc = "query"
    /\ IF ~ok
       THEN req' = [req EXCEPT ![p] =
              StoreFailed(req[p])]
       ELSE \E response \in QueryPages(QueryRows(store, req[p].srcRegionName,
                                  ExclusiveStartKeyOf(req[p].lastEvaluatedKey))) :
              LET r == req[p]
                  responseItemsArray == r.responseItemsArray \o response.Items
                  scan == QueryPageScan(response.Items, r.srcRegionName, r.acc)
                  read == [ReadMark(r) EXCEPT !.served = "store",
                                              !.dataset = responseItemsArray]
              IN  req' = [req EXCEPT ![p] =
                    IF LoopsAgain(response.LastEvaluatedKey)
                    THEN [read EXCEPT !.lastEvaluatedKey = response.LastEvaluatedKey,
                                      !.responseItemsArray = responseItemsArray,
                                      !.acc = scan]
                    ELSE IF scan.regionOfMinPing # Undefined
                    THEN [read EXCEPT !.pc = "cacheWrite", !.acc = scan,
                                      !.lastEvaluatedKey = Undefined,
                                      !.responseItemsArray = responseItemsArray]
                    ELSE Done(read, BestFinish(scan.regionOfMinPing, scan.minPing))]
    /\ UNCHANGED <<store, cache, now, ticks, epoch>>

\* writeToCacheAsync of the rows read, then the response
BestCacheWrite(p) ==
  \E ok \in BOOLEAN :
    /\ req[p].op = "getBestDstRegion" /\ req[p].pc = "cacheWrite"
    /\ LET r == req[p]
           response == BestFinish(r.acc.regionOfMinPing, r.acc.minPing)
       IN  /\ WriteToCache(ok, r.cacheKey, CacheItem(SerializeRows(r.responseItemsArray)))
           /\ req' = [req EXCEPT ![p] =
                Done(PutMark(r, ok), AfterCacheWrite(ok, response))]
    /\ UNCHANGED <<store, now, ticks, epoch>>

----------------------------------------------------------------------------
(* api/getAllData.js *)

\* the regions whose probers have written a partition of the latency table
Partitions == {Name("r1"), Name("r2")}

\* the items of one partition, in sort-key order, with all their attributes
PartitionRows(tbl, srcRegion) ==
  LET dsts == Ascending(DstOf(tbl, srcRegion))
  IN  [i \in 1..Len(dsts) |->
         [srcRegion |-> srcRegion, dstRegion |-> dsts[i],
          ping |-> tbl[<<srcRegion, dsts[i]>>]]]

\* the items of the table, partition after partition
RECURSIVE ScanAll(_, _)
ScanAll(tbl, partitions) ==
  IF Len(partitions) = 0 THEN <<>>
  ELSE PartitionRows(tbl, partitions[1]) \o ScanAll(tbl, Tail(partitions))

\* the place of a partition in the order of the scan
PartitionRank(partitions, srcRegion) ==
  CHOOSE i \in 1..Len(partitions) : partitions[i] = srcRegion

\* docClient.scan: the items after ExclusiveStartKey when there is one; the
\* partitions come in an order the table chooses (partitions)
ScanItems(tbl, partitions, exclusiveStartKey) ==
  LET After(row) ==
        \/ exclusiveStartKey = Undefined
        \/ PartitionRank(partitions, row.srcRegion)
             > PartitionRank(partitions, exclusiveStartKey[1])
        \/ /\ row.srcRegion = exclusiveStartKey[1]
           /\ StrLess(exclusiveStartKey[2], row.dstRegion)
  IN  SelectSeq(ScanAll(tbl, partitions), After)

\* the pages docClient.scan may return for the items left
ScanPages(rest) ==
  {[Items |-> rest, LastEvaluatedKey |-> Undefined]}
  \cup {[Items |-> SubSeq(rest, 1, n),
         LastEvaluatedKey |-> <<rest[n].srcRegion, rest[n].dstRegion>>] :
          n \in 1..Len(rest)}

\* an element that names the destination as the source and the source as the
\* destination
AllDataElement_Swapped(x) ==
  [srcProvider |-> At(split(x.dstRegion, "@"), 1),
   srcRegion |-> At(split(x.dstRegion, "@"), 2),
   dstProvider |-> At(split(x.srcRegion, "@"), 1),
   dstRegion |-> At(split(x.srcRegion, "@"), 2),
   ping |-> x.ping]

\* the element of data made of an item
AllDataElement(x) ==
  [srcProvider |-> At(split(x.srcRegion, "@"), 1),
   srcRegion |-> At(split(x.srcRegion, "@"), 2),
   dstProvider |-> At(split(x.dstRegion, "@"), 1),
   dstRegion |-> At(split(x.dstRegion, "@"), 2),
   ping |-> x.ping]

\* the elements made of the items between two different regions only
AllDataMap_NoSelfPairs(responseItemsArray) ==
  LET NotSelf(x) == x.srcRegion # x.dstRegion
      kept == SelectSeq(responseItemsArray, NotSelf)
  IN  [i \in 1..Len(kept) |-> AllDataElement(kept[i])]

\* responseItemsArray.map((x) => {...})
AllDataMap(responseItemsArray) ==
  [i \in 1..Len(responseItemsArray) |-> AllDataElement(responseItemsArray[i])]

\* JSON text of an element of data
ElementText(e) ==
  <<"{srcProvider:">> \o e.srcProvider \o <<",srcRegion:">> \o e.srcRegion
  \o <<",dstProvider:">> \o e.dstProvider \o <<",dstRegion:">> \o e.dstRegion
  \o <<",ping:", PingText(e.ping), "}">>

\* JSON.stringify({ data }, null, 2)
StringifyData(data) ==
  <<"{data:[">> \o join([i \in 1..Len(data) |-> ElementText(data[i])], ",") \o <<"]}">>

\* a response whose body is the JSON text of the cached string
AllDataHitResponse_Stringified(cachedValue) ==
  [NoResponse EXCEPT !.statusCode = 200, !.body = <<"'">> \o cachedValue \o <<"'">>]

\* { statusCode: 200, body: cachedValue }
AllDataHitResponse(cachedValue) ==
  [NoResponse EXCEPT !.statusCode = 200, !.body = cachedValue]

\* { statusCode: 200, body: result }; data is what result is the text of
AllDataResponse(data) ==
  [NoResponse EXCEPT !.statusCode = 200, !.data = data, !.body = StringifyData(data)]

\* the acknowledgement begins with the expected text
Acknowledged_Prefix(event) ==
  /\ event.queryStringParameters
  /\ event.acknowledgement # <<>>
  /\ event.acknowledgement[1] = ACKNOWLEDGEMENT[1]

\* the two tests that guard the handler: the event has queryStringParameters
\* and acknowledgement === the expected text
Acknowledged(event) ==
  /\ event.queryStringParameters
  /\ event.acknowledgement = ACKNOWLEDGEMENT

\* getAllData(event), up to the first docClient.scan, for the events Events;
\* cacheOk, one of Oks, is whether the docClient.get of checkCacheAsync
\* resolves; partitions is the order in which the scans will go
AllDataStart(p, Events, Oks) ==
  \E event \in Events, cacheOk \in Oks, partitions \in Orders(Partitions) :
    /\ Free(p)
    /\ LET bad == ~Acknowledged(event)
           cacheKey == createCacheKey(REQUEST_TYPES.AllData, Undefined)
           cachedValue == checkCacheAsync(cacheOk, cacheKey)
           r == [Idle EXCEPT !.op = "getAllData", !.params = <<event>>,
                             !.cacheGet = IF bad THEN "none"
                                          ELSE IF cacheOk THEN "ok" ELSE "failed"]
       IN  req' = [req EXCEPT ![p] =
             IF bad THEN Done(r, [ErrorResponse(400) EXCEPT !.body = <<"Bad Request">>])
             ELSE IF ~Falsy(cachedValue)
             THEN Done([r EXCEPT !.served = "cache", !.cacheKey = cacheKey],
                       AllDataHitResponse(cachedValue))
             ELSE [r EXCEPT !.pc = "scan", !.cacheKey = cacheKey,
                            !.partitions = partitions]]
    /\ UNCHANGED <<store, cache, now, ticks, epoch>>

\* one turn of the do-while loop: one docClient.scan
AllDataScanPage(p) ==
  \E ok \in BOOLEAN :
    /\ req[p].op = "getAllData" /\ req[p].pc = "scan"
    /\ IF ~ok
       THEN req' = [req EXCEPT ![p] =
              [StoreFailed(req[p]) EXCEPT
                 !.response.body = <<"Internal Server Error">>]]
       ELSE \E response \in ScanPages(ScanItems(store, req[p].partitions,
                                  ExclusiveStartKeyOf(req[p].lastEvaluatedKey))) :
              req' = [req EXCEPT ![p] =
                [ReadMark(req[p]) EXCEPT
                   !.lastEvaluatedKey = response.LastEvaluatedKey,
                   !.responseItemsArray = req[p].responseItemsArray \o response.Items,
                   !.pc = IF LoopsAgain(response.LastEvaluatedKey) THEN "scan" ELSE "cacheWrite"]]
    /\ UNCHANGED <<store, cache, now, ticks, epoch>>

\* after the loop: result, writeToCacheAsync(cacheKey, result), the response
AllDataCacheWrite(p) ==
  \E ok \in BOOLEAN :
    /\ req[p].op = "getAllData" /\ req[p].pc = "cacheWrite"
    /\ LET r == req[p]
           response == AllDataResponse(AllDataMap(r.responseItemsArray))
       IN  /\ WriteToCache(ok, r.cacheKey, CacheItem(response.body))
           /\ req' = [req EXCEPT ![p] =
                Done(PutMark([r EXCEPT !.served = "store",
                                       !.dataset = r.responseItemsArray], ok),
                     AfterCacheWrite(ok, response))]
    /\ UNCHANGED <<store, now, ticks, epoch>>

----------------------------------------------------------------------------
(* auth.js: the authorizer *)

\* process.env.RAPID_API_SECRET_KEY, from ${env:RAPID_API_SECRET_KEY} at the
\* deployment: not set, or set to the secret
SecretConfigurations == {Undefined, <<"secret">>}

\* the headers of a request as the client sent them, name by name: none, the
\* header under the name of the identity source or in lower case, with the
\* secret, with another value, or empty
HeaderSets ==
  {<<>>}
  \cup {[n \in {name} |-> value] :
          name \in {"X-RapidAPI-Proxy-Secret", "x-rapidapi-proxy-secret"},
          value \in {<<"secret">>, <<"other">>, <<>>}}

\* the name of a header in lower case; header names are matched without
\* regard to case
LowerHeaderName(name) ==
  IF name = "X-RapidAPI-Proxy-Secret" THEN "x-rapidapi-proxy-secret" ELSE name

\* identitySource: method.request.header.X-RapidAPI-Proxy-Secret; the
\* gateway calls the authorizer only when the header is there and not empty
IdentitySourcePresent(headers) ==
  \E name \in DOMAIN headers :
    /\ LowerHeaderName(name) = "x-rapidapi-proxy-secret"
    /\ headers[name] # <<>>

\* event.headers[name]: undefined when no header was sent under that name
HeaderOf(headers, name) ==
  IF name \in DOMAIN headers THEN headers[name] ELSE Undefined

\* process.env.RAPID_API_SECRET_KEY === event.headers['X-RapidAPI-Proxy-Secret']
SecretMatches(secret, headers) ==
  secret = HeaderOf(headers, "X-RapidAPI-Proxy-Secret")

\* callback(null, generateAllow('RapidAPI', event.methodArn))
AllowPolicy == [NoResponse EXCEPT !.body = <<"RapidAPI", "Allow">>]

\* callback('Unauthorized'), and the 401 of the gateway
Unauthorized == [NoResponse EXCEPT !.statusCode = 401, !.body = <<"Unauthorized">>]

\* a request at the gateway of a function with the authorizer authorizerFunc,
\* and authorize(event, context, callback) when the gateway calls it
authorize(p, Secrets, Headers) ==
  \E secret \in Secrets, headers \in Headers :
    /\ Free(p)
    /\ LET r == [Idle EXCEPT !.op = "authorize", !.params = <<secret, headers>>]
       IN  req' = [req EXCEPT ![p] =
             IF ~IdentitySourcePresent(headers) THEN Done(r, Unauthorized)
             ELSE IF SecretMatches(secret, headers) THEN Done(r, AllowPolicy)
             ELSE Done(r, Unauthorized)]
    /\ UNCHANGED <<store, cache, now, ticks, epoch>>

----------------------------------------------------------------------------
(* The table CloudHighwayOneCache as others leave it *)

\* values of a cache item that no handler has written: no JSON, the JSON
\* text of a row cut short, a row followed by a piece that is no JSON, the
\* JSON text of an object that has a dstRegion and no ping
CorruptValues ==
  {<<"garbage">>,
   <<"{dstRegion:", "aws", "@", "r2", ",ping:">>,
   JSONstringify([dstRegion |-> Name("r2"), ping |-> 1]) \o <<"|", "garbage">>,
   <<"{dstRegion:", "aws", "@", "r2", "}">>}

\* a value of a cache item as the handlers write it: one row
WellFormedValues == {JSONstringify([dstRegion |-> Name("r2"), ping |-> 1])}

\* an item put in the cache table by something else than the handlers, under
\* a key that has no item: its ttl is in the future or already in the past
CacheTamper(Keys, Values) ==
  \E cacheKey \in Keys \ DOMAIN cache, value \in Values,
     ttl \in {now - 1, CacheTtl(now)} :
    /\ ~Responding
    /\ cache' = Put(cache, cacheKey, [value |-> value, ttl |-> ttl])
    /\ UNCHANGED <<store, now, ticks, epoch, req>>

\* the cache key of getAllDstRegion for a source region
AllKey(srcRegionName) ==
  createCacheKey(REQUEST_TYPES.LatenciesFromOneRegionToMultiRegionCandidates,
                 [src |-> srcRegionName,
                  dst |-> generateListOfAllRegionsExceptSelf(srcRegionName)])

----------------------------------------------------------------------------
(* The system *)

\* the rows of a table given as a set of <<srcRegion code, dstRegion code, ping>>
Table(rows) ==
  [k \in {<<Name(x[1]), Name(x[2])>> : x \in rows} |->
     (CHOOSE x \in rows : <<Name(x[1]), Name(x[2])>> = k)[3]]

\* the latency table when the requests begin: empty; the own region nearest
\* and two regions at the same distance; the nearest region not first in
\* sort-key order, and the two directions of a pair measured differently
InitialStores ==
  {Table({}),
   Table({<<"r1", "r1", 1>>, <<"r1", "r2", 2>>, <<"r1", "r3", 2>>}),
   Table({<<"r1", "r2", 2>>, <<"r1", "r3", 1>>, <<"r2", "r1", 1>>})}

Init ==
  /\ store \in InitialStores
  /\ cache = <<>>
  /\ now = 0
  /\ ticks = 0
  /\ epoch = 0
  /\ req = [p \in Procs |-> Idle]

\* getAllDstRegion and getBestDstRegion for one source region and its prober,
\* within the life of a cache entry and with a cache table that can be read
Next ==
  \/ ping("r1")
  \/ pingIcmp("r1")
  \/ AllStart("p1", SrcR1 \cup SrcBad, {TRUE})
  \/ AllQueryPage("p1")
  \/ AllCacheWrite("p1")
  \/ BestStart("p1", SrcR1 \cup SrcBad, CandidateParams, {TRUE})
  \/ BestBatchGet("p1")
  \/ BestQueryPage("p1")
  \/ BestCacheWrite("p1")
  \/ Return("p1")

Spec == Init /\ [][Next]_vars

\* getLatency and the probers of two regions
NextLatency ==
  \/ ping("r1")
  \/ ping("r2")
  \/ pingIcmp("r1")
  \/ pingIcmp("r2")
  \/ interRegionalLatency("p1", SrcR1 \cup SrcR2 \cup SrcBad, DstParams)
  \/ Return("p1")

SpecLatency == Init /\ [][NextLatency]_vars

\* getAllDstRegion and getBestDstRegion without candidates in front of a
\* cache table that can fail, hold items written by others and outlive its
\* items; the latency table does not change
NextCache ==
  \/ CacheTamper({AllKey(Name("r1"))}, CorruptValues \cup WellFormedValues)
  \/ Tick
  \/ AllStart("p1", SrcR1, BOOLEAN)
  \/ AllQueryPage("p1")
  \/ AllCacheWrite("p1")
  \/ BestStart("p1", SrcR1, {[defined |-> FALSE, items |-> <<>>]}, BOOLEAN)
  \/ BestQueryPage("p1")
  \/ BestCacheWrite("p1")
  \/ Return("p1")

SpecCache == Init /\ [][NextCache]_vars

\* the three handlers that use the cache and the one that does not, in front
\* of a cache table whose calls can fail
NextFail ==
  \/ interRegionalLatency("p1", SrcR1, DstParams)
  \/ AllStart("p1", SrcR1, BOOLEAN)
  \/ AllQueryPage("p1")
  \/ AllCacheWrite("p1")
  \/ BestStart("p1", SrcR1, CandidateParams \cup {FiveCandidates}, BOOLEAN)
  \/ BestBatchGet("p1")
  \/ BestQueryPage("p1")
  \/ BestCacheWrite("p1")
  \/ AllDataStart("p1", AllDataEvents, BOOLEAN)
  \/ AllDataScanPage("p1")
  \/ AllDataCacheWrite("p1")
  \/ Return("p1")

SpecFail == Init /\ [][NextFail]_vars

\* getAllData, the prober of one region, and a cache table that can fail and
\* hold an item written by others
NextDump ==
  \/ ping("r1")
  \/ CacheTamper({<<"ALL_DATA">>}, CorruptValues)
  \/ AllDataStart("p1", AllDataEvents, BOOLEAN)
  \/ AllDataScanPage("p1")
  \/ AllDataCacheWrite("p1")
  \/ Return("p1")

SpecDump == Init /\ [][NextDump]_vars

\* the validation of the query strings by the handlers
NextValidate ==
  \/ AllStart("p1", SrcR1 \cup SrcR2 \cup SrcBad, {TRUE})
  \/ AllQueryPage("p1")
  \/ AllCacheWrite("p1")
  \/ BestStart("p1", SrcR1 \cup SrcR2 \cup SrcBad,
               CandidateParams \cup CandidateParamsBad, {TRUE})
  \/ BestBatchGet("p1")
  \/ BestQueryPage("p1")
  \/ BestCacheWrite("p1")
  \/ interRegionalLatency("p1", SrcR1 \cup SrcR2 \cup SrcBad, DstParams \cup DstBad)
  \/ AllDataStart("p1", AllDataEvents, {TRUE})
  \/ AllDataScanPage("p1")
  \/ AllDataCacheWrite("p1")
  \/ Return("p1")

SpecValidate == Init /\ [][NextValidate]_vars

\* two lambda instances serve requests for the region r1 at the same time,
\* with candidate lists that name the same regions in two orders, while the
\* prober of r1 writes
NextRace ==
  \/ ping("r1")
  \/ BestStart("p1", {<<<<"aws">>, <<"r1">>>>}, {SixCandidates}, {TRUE})
  \/ BestBatchGet("p1")
  \/ BestCacheWrite("p1")
  \/ Return("p1")
  \/ BestStart("p2", {<<<<"AWS">>, <<"R1">>>>}, {SixCandidatesPermuted}, {TRUE})
  \/ BestBatchGet("p2")
  \/ BestCacheWrite("p2")
  \/ Return("p2")

SpecRace == Init /\ [][NextRace]_vars

\* the four handlers, with the calls on both tables able to fail, and the
\* ICMP prober of a region
NextStore ==
  \/ pingIcmp("r2")
  \/ interRegionalLatency("p1", {<<<<"aws">>, <<"r1">>>>}, {<<<<"aws">>, <<"R2">>>>})
  \/ AllStart("p1", {<<<<"aws">>, <<"r1">>>>}, BOOLEAN)
  \/ AllQueryPage("p1")
  \/ AllCacheWrite("p1")
  \/ BestStart("p1", {<<<<"aws">>, <<"r1">>>>}, {FiveCandidates}, BOOLEAN)
  \/ BestBatchGet("p1")
  \/ AllDataStart("p1", {[queryStringParameters |-> TRUE, acknowledgement |-> ACKNOWLEDGEMENT]}, BOOLEAN)
  \/ AllDataScanPage("p1")
  \/ AllDataCacheWrite("p1")
  \/ Return("p1")

SpecStore == Init /\ [][NextStore]_vars

\* a value of a cache item whose rows are the row of the source itself and the
\* row of a destination that is DOWN
UnreachableValues ==
  {SerializeRows(<<[dstRegion |-> Name("r1"), ping |-> 1],
                   [dstRegion |-> Name("r2"), ping |-> DOWN]>>)}

\* the three handlers that use the cache, with cache calls that can fail and
\* an item left by an earlier write that may not parse, be past its ttl or
\* hold no row of a reachable destination; the latency table does not change
NextHit ==
  \/ CacheTamper({AllKey(Name("r1"))},
                 {<<"garbage">>} \cup UnreachableValues \cup WellFormedValues)
  \/ AllStart("p1", {<<<<"aws">>, <<"r1">>>>}, BOOLEAN)
  \/ AllQueryPage("p1")
  \/ AllCacheWrite("p1")
  \/ BestStart("p1", {<<<<"aws">>, <<"r1">>>>},
               {[defined |-> FALSE, items |-> <<>>], SixCandidates}, BOOLEAN)
  \/ BestBatchGet("p1")
  \/ BestQueryPage("p1")
  \/ BestCacheWrite("p1")
  \/ AllDataStart("p1", {[queryStringParameters |-> TRUE, acknowledgement |-> ACKNOWLEDGEMENT]}, BOOLEAN)
  \/ AllDataScanPage("p1")
  \/ AllDataCacheWrite("p1")
  \/ Return("p1")

SpecHit == Init /\ [][NextHit]_vars

\* the scheduled cycles of the two probers of a region, and getLatency
NextProbe ==
  \/ PingAllRegions("r1")
  \/ PingAllRegionsIcmp("r1")
  \/ interRegionalLatency("p1", {<<<<"aws">>, <<"r1">>>>}, {<<<<"aws">>, <<"r7">>>>})
  \/ Return("p1")

SpecProbe == Init /\ [][NextProbe]_vars

\* seven candidates, of which one is a region code followed by '@'
SevenCandidates ==
  [defined |-> TRUE,
   items |-> <<Name("r1"), <<"aws", "@", "r2", "@">>, Name("r3"), Name("r4"),
               Name("r5"), Name("r6"), Name("r7")>>]

\* six candidates, of which one is a region code followed by '@,aws@r3'
SixCandidatesWithComma ==
  [defined |-> TRUE,
   items |-> <<Name("r1"), <<"aws", "@", "r2", "@", ",", "aws", "@", "r3">>,
               Name("r4"), Name("r5"), Name("r6"), Name("r7")>>]

\* getBestDstRegion with candidate lists of several sizes and for two sources,
\* and getAllDstRegion, one request after the other over the same cache; the
\* latency table does not change
NextKey ==
  \/ AllStart("p1", SrcR1 \cup SrcR2, {TRUE})
  \/ AllQueryPage("p1")
  \/ AllCacheWrite("p1")
  \/ BestStart("p1", SrcR1 \cup SrcR2,
               CandidateParams \cup {SixCandidates, SixCandidatesPermuted,
                                     SevenCandidates, SixCandidatesWithComma}, {TRUE})
  \/ BestBatchGet("p1")
  \/ BestQueryPage("p1")
  \/ BestCacheWrite("p1")
  \/ Return("p1")

SpecKey == Init /\ [][NextKey]_vars

\* the authorizer in every configuration of the secret, and getLatency behind
\* it with the prober of the source region
NextAuth ==
  \/ ping("r1")
  \/ authorize("p1", SecretConfigurations, HeaderSets)
  \/ interRegionalLatency("p1", SrcR1, DstParams)
  \/ Return("p1")

SpecAuth == Init /\ [][NextAuth]_vars

\* the three handlers that read the latency table page by page, with calls
\* that can fail; the latency table does not change
NextDrain ==
  \/ AllStart("p1", {<<<<"aws">>, <<"r1">>>>}, BOOLEAN)
  \/ AllQueryPage("p1")
  \/ AllCacheWrite("p1")
  \/ BestStart("p1", {<<<<"aws">>, <<"r1">>>>}, {[defined |-> FALSE, items |-> <<>>]}, BOOLEAN)
  \/ BestQueryPage("p1")
  \/ BestCacheWrite("p1")
  \/ AllDataStart("p1", {[queryStringParameters |-> TRUE, acknowledgement |-> ACKNOWLEDGEMENT]}, BOOLEAN)
  \/ AllDataScanPage("p1")
  \/ AllDataCacheWrite("p1")
  \/ Return("p1")

\* what a handler does after its first await: each awaited call resolves or
\* rejects, and the handler goes on
HandlerSteps(p) ==
  \/ AllQueryPage(p) \/ AllCacheWrite(p)
  \/ BestQueryPage(p) \/ BestCacheWrite(p)
  \/ AllDataScanPage(p) \/ AllDataCacheWrite(p)

SpecDrain == Init /\ [][NextDrain]_vars /\ WF_vars(HandlerSteps("p1"))

----------------------------------------------------------------------------
(* The properties *)

\* a handler has returned and its response is being looked at
Answered(p, op) == req[p].pc = "done" /\ req[p].op = op

\* the region identifier an element {dstProvider, dstRegion, ...} names
ElementName(e) == e.dstProvider \o <<"@">> \o e.dstRegion

\* every region identifier of the catalog
CatalogNames ==
  UNION {{<<Providers[i], "@", c>> : c \in Range(regions[Providers[i]])} :
           i \in 1..Len(Providers)}

\* the candidates of a getBestDstRegion request: the ones it names, or every
\* region but the source
CandidatesOf(r) ==
  IF r.given.defined THEN Range(MapLower(r.given.items))
  ELSE CatalogNames \ {r.srcRegionName}

\* the destinations of the rows a getBestDstRegion request reads from the
\* latency table: the candidates with batchGet, the whole partition with query
FetchedOf(r) ==
  IF r.given.defined THEN DstOf(store, r.srcRegionName) \cap CandidatesOf(r)
  ELSE DstOf(store, r.srcRegionName)

\* the rows {dstRegion, ping} the latency table holds for these destinations
StoreRows(srcRegionName, dsts) ==
  {[dstRegion |-> d, ping |-> store[<<srcRegionName, d>>]] : d \in dsts}

\* the rows were read from the latency table in one piece and no prober update
\* has happened since
Fresh(r) == r.served = "store" /\ ~r.torn /\ r.readEpoch = epoch

\* the rows of a dataset that are not the row of the source itself
Others(dataset, srcRegionName) ==
  {i \in 1..Len(dataset) : dataset[i].dstRegion # srcRegionName}

\* C1 (as claimed): every 200 response of getBestDstRegion, served from the
\* cache or from the latency table, names a row of the latency table whose
\* ping is at most the ping of every other candidate row of the table that is
\* not the source's own row (for a response served from the table: of the
\* table as the request read it, no prober update having happened since).
C1_BestIsMinimumOfStore ==
  \A p \in Procs :
    (  Answered(p, "getBestDstRegion") /\ req[p].response.statusCode = 200
     /\ (req[p].served = "cache" \/ Fresh(req[p])) ) =>
      LET r == req[p]
          src == r.srcRegionName
          best == ElementName(r.response.result)
      IN  /\ best \in DstOf(store, src) \ {src}
          /\ store[<<src, best>>] # DOWN
          /\ \A d \in (DstOf(store, src) \cap CandidatesOf(r)) \ {src, best} :
               store[<<src, d>>] # DOWN => store[<<src, best>>] <= store[<<src, d>>]

\* C1 (amended): every 200 response of getBestDstRegion names a row of the
\* dataset it was computed from (the rows the request fetched from the latency
\* table, or the rows of the cache entry it hit) that is not the source's own
\* row, and carries that row's ping, which is at most the ping of every other
\* such row of the dataset; when the rows were fetched from the table in one
\* piece and no prober update has happened since, the dataset is exactly the
\* candidate rows of the table.
C1_BestIsMinimumOfDataset ==
  \A p \in Procs :
    Answered(p, "getBestDstRegion") /\ req[p].response.statusCode = 200 =>
      LET r == req[p]
          src == r.srcRegionName
          res == r.response.result
      IN  /\ res.ping # DOWN /\ res.ping # NaN
          /\ \E i \in Others(r.dataset, src) :
               r.dataset[i].dstRegion = ElementName(res) /\ r.dataset[i].ping = res.ping
          /\ \A j \in Others(r.dataset, src) :
               r.dataset[j].ping # DOWN => res.ping <= r.dataset[j].ping
          /\ Fresh(r) => Range(r.dataset) = StoreRows(src, FetchedOf(r))

\* C1 witness: a 200 response computed from cached rows of which two are not
\* the source's own row and have different pings, after a prober update
C1_Witness ==
  \E p \in Procs :
    /\ Answered(p, "getBestDstRegion") /\ req[p].response.statusCode = 200
    /\ req[p].served = "cache" /\ epoch > 0
    /\ \E i, j \in Others(req[p].dataset, req[p].srcRegionName) :
         req[p].dataset[i].ping # DOWN /\ req[p].dataset[j].ping # DOWN
         /\ req[p].dataset[i].ping < req[p].dataset[j].ping

\* C2: no element of a 200 response of getAllDstRegion and no result of a 200
\* response of getBestDstRegion is the source region itself: the response of
\* getAllDstRegion has one element for each row of its dataset that is not
\* the source's own row and none of them names the source, and the result of
\* getBestDstRegion does not name the source.
C2_SelfExcluded ==
  \A p \in Procs :
    LET r == req[p] IN
      /\ Answered(p, "getAllDstRegion") /\ r.response.statusCode = 200 =>
           /\ Len(r.response.data) = Cardinality(Others(r.dataset, r.srcRegionName))
           /\ \A i \in 1..Len(r.response.data) :
                ElementName(r.response.data[i]) # r.srcRegionName
      /\ Answered(p, "getBestDstRegion") /\ r.response.statusCode = 200 =>
           ElementName(r.response.result) # r.srcRegionName

\* the dataset holds the source's own row, with a ping below every other row
SelfIsNearest(r) ==
  /\ Others(r.dataset, r.srcRegionName) # {}
  /\ \E i \in 1..Len(r.dataset) :
       /\ r.dataset[i].dstRegion = r.srcRegionName
       /\ \A j \in Others(r.dataset, r.srcRegionName) :
            r.dataset[j].ping # DOWN /\ r.dataset[i].ping < r.dataset[j].ping

\* C2 witness: a 200 response of getBestDstRegion computed from cached rows
\* among which the source's own row has the lowest ping
C2_Witness ==
  \E p \in Procs :
    /\ Answered(p, "getBestDstRegion") /\ req[p].response.statusCode = 200
    /\ req[p].served = "cache"
    /\ SelfIsNearest(req[p])

\* the cached value a request with this key would get from checkCacheAsync now
CachedNow(r) == CheckCacheValue(cache, r.cacheKey, now)

\* the request read the latency table and put the rows it read in the cache
WroteCache(r) == r.served = "store" /\ r.wrote

\* C3 (as claimed): the body getAllDstRegion returns on a cache miss equals
\* the body the next request gets from the cache entry written by that miss.
C3_AllRoundTrip ==
  \A p \in Procs :
    (  Answered(p, "getAllDstRegion") /\ req[p].response.statusCode = 200
     /\ WroteCache(req[p])
     /\ AllHit(CachedNow(req[p]), req[p].srcRegionName).parsed ) =>
      AllResponse(AllHit(CachedNow(req[p]), req[p].srcRegionName).resultArray)
        = req[p].response

\* C4: the result getBestDstRegion returns on a cache miss, after it has put
\* the rows it read in the cache, equals the result a request with the same
\* cache key gets from that cache entry.
C4_BestRoundTrip ==
  \A p \in Procs :
    (  Answered(p, "getBestDstRegion") /\ req[p].response.statusCode = 200
     /\ WroteCache(req[p]) ) =>
      LET hit == BestHit(CachedNow(req[p]), req[p].srcRegionName)
      IN  /\ hit.parsed
          /\ BestFinish(hit.scan.regionOfMinPing, hit.scan.minPing) = req[p].response

\* C4 witness: a 200 response on a miss for six named candidates (batchGet)
\* that wrote the cache, the source's own row among the rows read and with a
\* ping below every other row
C4_Witness ==
  \E p \in Procs :
    /\ Answered(p, "getBestDstRegion") /\ req[p].response.statusCode = 200
    /\ WroteCache(req[p]) /\ req[p].given.defined
    /\ SelfIsNearest(req[p])

\* the element getAllDstRegion documents for the row of destination d
DocumentedElement(srcRegionName, d) ==
  [dstProvider |-> <<d[1]>>, dstRegion |-> <<d[3]>>, ping |-> store[<<srcRegionName, d>>]]

\* C5 (as claimed): on a cache miss getAllDstRegion returns one element for
\* each row (src, d, p) of the latency table with d other than src, with the
\* provider of d, the region code of d and p, and nothing else.
C5_AllMissElements ==
  \A p \in Procs :
    (  Answered(p, "getAllDstRegion") /\ req[p].response.statusCode = 200
     /\ Fresh(req[p]) ) =>
      LET src == req[p].srcRegionName
          others == DstOf(store, src) \ {src}
      IN  /\ Len(req[p].response.data) = Cardinality(others)
          /\ Range(req[p].response.data) = {DocumentedElement(src, d) : d \in others}

\* C6: a 200 response of getLatency carries the ping the latency table holds
\* for the ordered pair (src, dst) asked for, as the prober last wrote it.
C6_LatencyIsStoredPing ==
  \A p \in Procs :
    Answered(p, "getLatency") /\ req[p].response.statusCode = 200 =>
      /\ <<req[p].srcRegionName, req[p].dstRegionName>> \in DOMAIN store
      /\ req[p].response.ping = store[<<req[p].srcRegionName, req[p].dstRegionName>>]

\* C6 witness: a 200 response for a pair whose two directions are both in the
\* table with different pings, after a prober update
C6_Witness ==
  \E p \in Procs :
    /\ Answered(p, "getLatency") /\ req[p].response.statusCode = 200
    /\ epoch > 0
    /\ req[p].srcRegionName # req[p].dstRegionName
    /\ <<req[p].dstRegionName, req[p].srcRegionName>> \in DOMAIN store
    /\ store[<<req[p].dstRegionName, req[p].srcRegionName>>] # req[p].response.ping

\* C7 (as claimed): getLatency for a valid pair without a row ends with a
\* response that is not a 200, not with an exception.
C7_LatencyNotFound ==
  \A p \in Procs :
    (  Answered(p, "getLatency") /\ req[p].served = "store"
     /\ <<req[p].srcRegionName, req[p].dstRegionName>> \notin DOMAIN store ) =>
      ~req[p].response.thrown /\ req[p].response.statusCode # 200

\* no row of the dataset can be selected: each is the source's own row or has
\* a ping that is not a number
NoneQualifies(r) ==
  \A i \in Others(r.dataset, r.srcRegionName) : r.dataset[i].ping = DOWN

\* C8 (as claimed): getBestDstRegion for a valid request for which no row
\* qualifies returns status 500; it does not return 200 and does not end with
\* an exception.
C8_NoResultIs500 ==
  \A p \in Procs :
    (  Answered(p, "getBestDstRegion") /\ req[p].served \in {"cache", "store"}
     /\ NoneQualifies(req[p]) ) =>
      ~req[p].response.thrown /\ req[p].response.statusCode = 500

\* C9: getAllDstRegion for a valid source for which the latency table holds
\* no row, or only the source's own row, returns status 200 with an empty
\* data sequence, unless a call of the latency table fails.
C9_AllEmptyIs200 ==
  \A p \in Procs :
    (  Answered(p, "getAllDstRegion") /\ req[p].srcRegionName # Undefined
     /\ req[p].served # "failed"
     /\ DstOf(store, req[p].srcRegionName) \subseteq {req[p].srcRegionName} ) =>
      req[p].response = [NoResponse EXCEPT !.statusCode = 200]

\* C9 witness: a response of getAllDstRegion for a source whose only row is
\* its own
C9_Witness ==
  \E p \in Procs :
    /\ Answered(p, "getAllDstRegion")
    /\ req[p].served \in {"cache", "store"}
    /\ DstOf(store, req[p].srcRegionName) = {req[p].srcRegionName}

\* C10 (as claimed): getBestDstRegion with an absent and with an empty
\* candidate list sets checkAgainstAll, takes every region but the source for
\* candidates and reads the latency table with query, not with batchGet.
C10_EmptyIsAll ==
  \A p \in Procs :
    (  req[p].op = "getBestDstRegion" /\ req[p].pc \in {"batchGet", "query"}
     /\ (~req[p].given.defined \/ req[p].given.items = <<>>) ) =>
      /\ req[p].checkAgainstAll
      /\ req[p].dstCandidate = generateListOfAllRegionsExceptSelf(req[p].srcRegionName)
      /\ req[p].pc = "query"

\* a provider and a region code of a query string name a region of the catalog
ValidParam(provider, region) ==
  /\ ~Falsy(provider) /\ ~Falsy(region)
  /\ LowerName(provider, region) \in CatalogNames

\* the source of the request is a region of the catalog
ValidSource(r) == ValidParam(r.params[1][1], r.params[1][2])

\* a candidate that is no region identifier of the catalog: it has no '@', or
\* its provider or its region code is unknown
Malformed(candidate) == toLowerCase(candidate) \notin CatalogNames

\* C11 (as claimed): for a valid source, getBestDstRegion does not answer 400
\* when the candidate list is absent, and answers 400 when the list has more
\* than 100 elements and when one of its elements is malformed.
C11_CandidatesValidated ==
  \A p \in Procs :
    (  Answered(p, "getBestDstRegion") /\ ValidSource(req[p]) ) =>
      LET given == req[p].given
          status == req[p].response.statusCode
      IN  /\ ~given.defined => status # 400
          /\ given.defined /\ Len(given.items) > MAX_DST_REGION_CANDIDATES => status = 400
          /\ given.defined /\ (\E i \in 1..Len(given.items) : Malformed(given.items[i]))
               => status = 400

\* the region identifier the source parameters spell, in the casing given
RawSource(r) == r.params[1][1] \o <<"@">> \o r.params[1][2]

\* the place of a region identifier in the catalog: the place of its provider
\* among the providers, then the place of its code among the provider's codes
ProviderPlace(name) == CHOOSE i \in 1..Len(Providers) : Providers[i] = name[1]
CodePlace(name) ==
  CHOOSE j \in 1..Len(regions[name[1]]) : regions[name[1]][j] = name[3]
DeclaredBefore(a, b) ==
  \/ ProviderPlace(a) < ProviderPlace(b)
  \/ ProviderPlace(a) = ProviderPlace(b) /\ CodePlace(a) < CodePlace(b)

\* a getBestDstRegion request that checks against every region and is about
\* to query the store with the list generateListOfAllRegionsExceptSelf built
ChecksAgainstAll(p) ==
  /\ req[p].op = "getBestDstRegion" /\ req[p].pc = "query"
  /\ req[p].checkAgainstAll

\* C12: the list generateListOfAllRegionsExceptSelf builds for a region r, in
\* any casing, does not contain r, contains every other region identifier of
\* the catalog exactly once, in declaration order, and is the same list at
\* every call.
C12_AllRegionsExceptSelf ==
  \A p \in Procs :
    ChecksAgainstAll(p) =>
      LET list == req[p].dstCandidate
          self == toLowerCase(RawSource(req[p]))
      IN  /\ \A i \in 1..Len(list) : list[i] # self
          /\ Range(list) \subseteq CatalogNames
          /\ \A name \in CatalogNames \ {self} :
               Cardinality({i \in 1..Len(list) : list[i] = name}) = 1
          /\ \A i, j \in 1..Len(list) : i < j => DeclaredBefore(list[i], list[j])
          /\ list = generateListOfAllRegionsExceptSelf(RawSource(req[p]))
          /\ list = generateListOfAllRegionsExceptSelf(self)

\* a list was built for a source spelled in upper case that is neither the
\* first nor the last region of the catalog
C12_Witness ==
  \E p \in Procs :
    /\ ChecksAgainstAll(p)
    /\ RawSource(req[p]) = <<"AWS", "@", "R2">>
    /\ Len(req[p].dstCandidate) = Len(regions.aws) - 1

\* the request names a region that is missing or not in the catalog: as its
\* source, as its destination (getLatency) or as one of its candidates
\* (getBestDstRegion)
InvalidRegionParams(r) ==
  \/ ~ValidSource(r)
  \/ r.op = "getLatency" /\ ~ValidParam(r.params[2][1], r.params[2][2])
  \/ /\ r.op = "getBestDstRegion" /\ r.given.defined
     /\ \E i \in 1..Len(r.given.items) : Malformed(r.given.items[i])

\* the invocation made no call on the store and none on the cache
NoStoreOrCacheAccess(r) ==
  /\ r.served = "none" /\ r.pages = 0
  /\ r.cacheGet = "none" /\ r.cachePut = "none" /\ ~r.wrote

\* C13 (as claimed): getLatency, getBestDstRegion and getAllDstRegion answer a
\* request that names a missing or out-of-catalog region (source, destination
\* or candidate) with 400, before any read or write of the store or the cache.
C13_InvalidIs400BeforeAccess ==
  \A p \in Procs :
    (  req[p].pc = "done"
     /\ req[p].op \in {"getLatency", "getBestDstRegion", "getAllDstRegion"}
     /\ InvalidRegionParams(req[p]) ) =>
      /\ req[p].response.statusCode = 400
      /\ NoStoreOrCacheAccess(req[p])

\* the event of a getAllData request carries the exact acknowledgement
ExactAcknowledgement(r) ==
  r.params[1] = [queryStringParameters |-> TRUE, acknowledgement |-> ACKNOWLEDGEMENT]

\* C14: getAllData answers a request whose acknowledgement is missing or is
\* not exactly the expected text (a trailing space is enough) with 400, without
\* a read of the store and without a read or a write of the cache.
C14_NoAcknowledgementIs400 ==
  \A p \in Procs :
    (  Answered(p, "getAllData") /\ ~ExactAcknowledgement(req[p]) ) =>
      /\ req[p].response.statusCode = 400
      /\ NoStoreOrCacheAccess(req[p])

\* the acknowledgement followed by a space was refused while the store had
\* rows and the cache held an unexpired entry under the global key
C14_Witness ==
  \E p \in Procs :
    /\ Answered(p, "getAllData")
    /\ req[p].params[1].acknowledgement = ACKNOWLEDGEMENT \o <<" ">>
    /\ req[p].response.statusCode = 400
    /\ DOMAIN store # {}
    /\ <<"ALL_DATA">> \in DOMAIN cache
    /\ cache[<<"ALL_DATA">>].ttl > now

\* the element of the full dump that stands for the row of the store with
\* the key k = <<srcRegion, dstRegion>>
DumpElement(k) ==
  [srcProvider |-> <<k[1][1]>>, srcRegion |-> <<k[1][3]>>,
   dstProvider |-> <<k[2][1]>>, dstRegion |-> <<k[2][3]>>,
   ping |-> store[k]]

\* getAllData has answered 200 from a scan of the store as it is now
DumpFromStore(p) ==
  /\ Answered(p, "getAllData") /\ req[p].response.statusCode = 200
  /\ Fresh(req[p])

\* C15: on a cache miss getAllData returns exactly one element per row of the
\* store, over all the pages of the scan and with the rows of a region to
\* itself, each mapped to {srcProvider, srcRegion, dstProvider, dstRegion,
\* ping}, and it writes the text it returns under the one global cache key.
C15_DumpIsEveryRow ==
  \A p \in Procs :
    DumpFromStore(p) =>
      LET data == req[p].response.data
      IN  /\ Len(data) = Cardinality(DOMAIN store)
          /\ \A k \in DOMAIN store :
               Cardinality({i \in 1..Len(data) : data[i] = DumpElement(k)}) = 1
          /\ req[p].response.body = StringifyData(data)
          /\ req[p].cacheKey = <<"ALL_DATA">>
          /\ req[p].cachePut = "ok" =>
               /\ <<"ALL_DATA">> \in DOMAIN cache
               /\ cache[<<"ALL_DATA">>].value = req[p].response.body
          /\ DOMAIN cache \subseteq {<<"ALL_DATA">>}

\* a dump was answered from a scan of more than one page, over two partitions
\* and a row of a region to itself, and written to the cache
C15_Witness ==
  \E p \in Procs :
    /\ DumpFromStore(p)
    /\ req[p].pages > 1
    /\ req[p].cachePut = "ok"
    /\ <<Name("r1"), Name("r1")>> \in DOMAIN store
    /\ \E k \in DOMAIN store : k[1] = Name("r2")

\* the cache holds an unexpired entry with a value under the global key
GlobalEntryLive ==
  /\ <<"ALL_DATA">> \in DOMAIN cache
  /\ ~Falsy(cache[<<"ALL_DATA">>].value)
  /\ cache[<<"ALL_DATA">>].ttl > now

\* C16: when getAllData, rightly acknowledged, reads an unexpired entry under
\* the global key, it answers 200 with a body identical to the cached value,
\* without a scan and without a cache write.
C16_DumpHitIsCachedValue ==
  [][\A p \in Procs :
       (  req[p].pc = "idle" /\ req'[p].op = "getAllData"
        /\ ExactAcknowledgement(req'[p]) /\ req'[p].cacheGet = "ok"
        /\ GlobalEntryLive ) =>
         /\ req'[p].pc = "done" /\ req'[p].served = "cache"
         /\ req'[p].response.statusCode = 200
         /\ req'[p].response.body = cache[<<"ALL_DATA">>].value
         /\ req'[p].pages = 0 /\ req'[p].cachePut = "none"
         /\ cache' = cache]_vars

\* a dump was answered from the entry an earlier dump had written, while the
\* store has rows
C16_Witness ==
  \E p \in Procs :
    /\ Answered(p, "getAllData") /\ req[p].served = "cache"
    /\ req[p].pages = 0
    /\ DOMAIN store # {}
    /\ req[p].response.body = cache[<<"ALL_DATA">>].value
    /\ req[p].response.body[1] = "{data:["
    /\ Len(req[p].response.body) > 2

\* the cache holds under the key k an entry whose ttl is still ahead
Unexpired(k) == k \in DOMAIN cache /\ now < cache[k].ttl

\* C17: an entry written at time t has ttl = t + CACHE_TTL_IN_MINUTES * 60;
\* a handler is served from the entry only while now < ttl; at or after the
\* ttl, and for an entry whose ttl was already past when it was written, the
\* handler goes on as for an absent entry, to the read of the store.
C17_TtlBoundsTheHit ==
  [][\A p \in Procs :
       /\ (  req[p].pc = "cacheWrite" /\ req'[p].pc = "done"
           /\ req'[p].cachePut = "ok" ) =>
            /\ req[p].cacheKey \in DOMAIN cache'
            /\ cache'[req[p].cacheKey].ttl = now + CACHE_TTL_IN_MINUTES * 60
       /\ (  req[p].pc = "idle"
           /\ req'[p].op \in {"getAllDstRegion", "getBestDstRegion"}
           /\ req'[p].cacheGet = "ok" ) =>
            /\ req'[p].served = "cache" => Unexpired(req'[p].cacheKey)
            /\ ~Unexpired(req'[p].cacheKey) =>
                 /\ req'[p].pc = "query" /\ req'[p].served = "none"
                 /\ req'[p].pages = 0]_vars

\* a request went on to the store although the entry a handler had written
\* under its key is still there, at the very second of its ttl
C17_Witness ==
  \E p \in Procs :
    /\ req[p].op = "getAllDstRegion" /\ req[p].pc = "query"
    /\ req[p].cacheGet = "ok"
    /\ req[p].cacheKey \in DOMAIN cache
    /\ cache[req[p].cacheKey].value \notin CorruptValues \cup WellFormedValues
    /\ cache[req[p].cacheKey].ttl = now
    /\ now = CACHE_TTL_IN_MINUTES * 60

\* the response of a handler that finds nothing in the cache, for the rows
\* r.dataset it has read from the store
MissResponse(r) ==
  IF r.op = "getAllDstRegion"
  THEN AllResponse(QueryPageMap(r.dataset, r.srcRegionName))
  ELSE IF r.op = "getAllData"
  THEN AllDataResponse(AllDataMap(r.dataset))
  ELSE LET scan == IF r.checkAgainstAll
                   THEN QueryPageScan(r.dataset, r.srcRegionName, ScanInit)
                   ELSE BatchGetScan(r.dataset, r.srcRegionName)
       IN  BestFinish(scan.regionOfMinPing, scan.minPing)

\* a call of the request on the cache table was rejected
CacheFailed(r) == r.cacheGet = "failed" \/ r.cachePut = "failed"

\* C18: when the read or the write of the cache fails while getBestDstRegion,
\* getAllDstRegion or getAllData serves a request, the response is the one of
\* a miss on an empty cache over the same store; the failure alone never
\* makes an error response.
C18_CacheFailureIsMiss ==
  \A p \in Procs :
    (  req[p].pc = "done"
     /\ req[p].op \in {"getBestDstRegion", "getAllDstRegion", "getAllData"}
     /\ CacheFailed(req[p]) ) =>
      /\ req[p].served \in {"store", "failed"}
      /\ req[p].served = "store" => req[p].response = MissResponse(req[p])
      /\ req[p].response.statusCode \in {400, 500} => req[p].served = "failed"
      /\ req[p].cacheGet = "failed" => req[p].pages > 0 \/ req[p].served = "failed"

\* getAllDstRegion answered 200 from the store although neither its read nor
\* its write of the cache went through and the cache holds an entry under its
\* key
C18_Witness ==
  \E p \in Procs :
    /\ Answered(p, "getAllDstRegion")
    /\ req[p].cacheGet = "failed" /\ req[p].cachePut = "failed"
    /\ req[p].served = "store" /\ req[p].response.statusCode = 200
    /\ Len(req[p].response.data) > 0
    /\ req[p].cacheKey \in DOMAIN cache

\* a handler reads, with a call that resolves, an unexpired entry whose
\* value is none of the texts the handlers write
ReadsCorruptEntry(r) ==
  /\ r.cacheGet = "ok"
  /\ Unexpired(r.cacheKey)
  /\ cache[r.cacheKey].value \in CorruptValues

\* C19 (as claimed): when getBestDstRegion or getAllDstRegion reads an
\* unexpired cached value that is no '|'-joined sequence of {dstRegion, ping}
\* objects, it treats the value as a miss and goes on to read the store, as
\* with an empty cache.
C19_CorruptValueIsMiss ==
  [][\A p \in Procs :
       (  req[p].pc = "idle"
        /\ req'[p].op \in {"getAllDstRegion", "getBestDstRegion"}
        /\ ReadsCorruptEntry(req'[p]) ) =>
         /\ req'[p].pc = "query"
         /\ req'[p].served = "none"]_vars

\* C20 (as claimed): a corrupted cache entry never changes what getAllData
\* returns: every 200 answer, also with an unexpired entry under the global
\* key whose value is not the text of a dataset, carries the text of a
\* dataset {data: [...]} and never the corrupted value.
C20_DumpIsNeverCorruptValue ==
  \A p \in Procs :
    (  Answered(p, "getAllData") /\ req[p].response.statusCode = 200 ) =>
      LET body == req[p].response.body
      IN  /\ body \notin CorruptValues
          /\ body[1] = "{data:[" /\ body[Len(body)] = "]}"

\* the key createCacheKey derives for a source and a candidate list, the way
\* the handlers call it
KeyFor(srcRegionName, candidates) ==
  createCacheKey(REQUEST_TYPES.LatenciesFromOneRegionToMultiRegionCandidates,
                 [src |-> srcRegionName, dst |-> MapLower(candidates)])

Reversed(items) == [i \in 1..Len(items) |-> items[Len(items) + 1 - i]]

\* other orders of the candidates of a list: the list reversed, the list with
\* its first element moved to the end, and the two lists of six candidates
\* when they name the same regions
Reordered(items) ==
  {o \in {Reversed(items), Tail(items) \o <<items[1]>>,
           SixCandidates.items, SixCandidatesPermuted.items} :
     /\ Len(o) = Len(items)
     /\ Range(MapLower(o)) = Range(MapLower(items))}

\* getBestDstRegion starts on a request with more than 5 valid candidates
StartsWithManyCandidates(p) ==
  /\ req[p].pc = "idle" /\ req'[p].op = "getBestDstRegion"
  /\ req'[p].given.defined
  /\ Len(req'[p].given.items) > CACHE_MIN_CANDIDATES
  /\ req'[p].response.statusCode # 400

\* C21: the key createCacheKey derives is the same for every order of the
\* candidates of a request (lowercased first), so that getBestDstRegion is
\* served from the entry written for the same candidates in another order;
\* the candidate list the handler goes on to use keeps its order.
C21_KeyIgnoresOrder ==
  [][\A p \in Procs :
       StartsWithManyCandidates(p) =>
         LET r == req'[p]
         IN  /\ \A o \in Reordered(r.given.items) :
                  KeyFor(toLowerCase(RawSource(r)), o) = r.cacheKey
             /\ Unexpired(r.cacheKey) => r.served = "cache"
             /\ r.pc = "batchGet" => r.dstCandidate = r.given.items]_vars

\* the instance that is asked with the permuted list answered from the cache
\* without a write of its own: the entry was written for the list in catalog
\* order
C21_Witness ==
  /\ Answered("p2", "getBestDstRegion")
  /\ req["p2"].served = "cache"
  /\ req["p2"].given = SixCandidatesPermuted
  /\ req["p2"].cachePut = "none" /\ req["p2"].pages = 0
  /\ req["p1"].pc = "idle"

\* a small query: getLatency, or getBestDstRegion with 1 to 5 candidates
SmallQuery(r) ==
  \/ r.op = "getLatency"
  \/ /\ r.op = "getBestDstRegion" /\ r.given.defined
     /\ Len(r.given.items) \in 1..CACHE_MIN_CANDIDATES

\* C22: getLatency, and getBestDstRegion with between 1 and 5 candidates,
\* never read and never write the cache, whatever the outcome of the request;
\* no step of such a request changes the cache.
C22_SmallQueriesBypassCache ==
  [][\A p \in Procs :
       (  req'[p] # req[p] /\ SmallQuery(req'[p]) ) =>
         /\ cache' = cache
         /\ req'[p].cacheGet = "none" /\ req'[p].cachePut = "none"
         /\ ~req'[p].wrote /\ req'[p].served # "cache"]_vars

\* a request with exactly 5 candidates was answered from the store while the
\* cache holds entries
C22_Witness ==
  \E p \in Procs :
    /\ Answered(p, "getBestDstRegion")
    /\ req[p].given = FiveCandidates
    /\ req[p].served = "store" /\ req[p].response.statusCode = 200
    /\ req[p].cacheGet = "none" /\ req[p].cachePut = "none"
    /\ DOMAIN cache # {}

\* C23 (as claimed): every write of a per-source dataset to the cache, by
\* getBestDstRegion or by getAllDstRegion, follows a fetch from the store that
\* returned more than 5 rows; a fetch of 5 rows or fewer never populates the
\* cache.
C23_WriteOnlyAfterLargeFetch ==
  \A p \in Procs :
    (  req[p].pc = "done"
     /\ req[p].op \in {"getBestDstRegion", "getAllDstRegion"}
     /\ req[p].cachePut = "ok" ) =>
      Len(req[p].dataset) > CACHE_MIN_CANDIDATES

\* the rows {dstRegion, ping} a cached value is the text of
RowsCached(value) ==
  IF value = <<>> THEN <<>> ELSE ParseCached(value)

\* the request has written the cache with the rows of its fetch
WroteRows(p) ==
  /\ req[p].pc = "done"
  /\ req[p].op \in {"getBestDstRegion", "getAllDstRegion"}
  /\ req[p].cachePut = "ok"

\* and no prober update has interleaved or followed the fetch
WroteFreshRows(p) == WroteRows(p) /\ Fresh(req[p])

\* C24: the value stored under a source-plus-candidates key is the text of
\* all the raw rows {dstRegion, ping} the fetch of the request returned, the
\* row of the source to itself and the rows that are not the minimum included;
\* it is never the selected minimum alone nor the mapped output. (When no
\* prober update interleaved or followed the fetch, these are the rows the
\* store holds for the source and the candidates.)
C24_CachedValueIsRawRows ==
  \A p \in Procs :
    WroteRows(p) =>
      LET r == req[p]
          value == cache[r.cacheKey].value
          rows == RowsCached(value)
      IN  /\ value = <<>> \/ ~ParseCachedThrows(value)
          /\ rows = r.dataset
          /\ Fresh(r) =>
               /\ Range(rows) = StoreRows(r.srcRegionName, FetchedOf(r))
               /\ Len(rows) = Cardinality(FetchedOf(r))

\* an entry was written from a fetch of three rows: the row of the source to
\* itself, which has the smallest ping, and two other rows
C24_Witness ==
  \E p \in Procs :
    /\ WroteFreshRows(p)
    /\ req[p].op = "getBestDstRegion"
    /\ SelfIsNearest(req[p])
    /\ Len(RowsCached(cache[req[p].cacheKey].value)) = 3

\* the request was for every destination of its source: getAllDstRegion, or
\* getBestDstRegion without candidates
ForAllDestinations(r) ==
  \/ r.op = "getAllDstRegion"
  \/ r.op = "getBestDstRegion" /\ ~r.given.defined

\* C25 (as claimed): getAllDstRegion(src) and getBestDstRegion(src) without
\* candidates derive the same cache key, and the answer each of them derives
\* from an entry under that key equals the answer it computes from the store
\* rows the entry was built from.
C25_SharedEntrySameAnswer ==
  \A p \in Procs :
    (  req[p].pc = "done" /\ ForAllDestinations(req[p])
     /\ req[p].response.statusCode # 400 ) =>
      /\ req[p].cacheKey = AllKey(req[p].srcRegionName)
      /\ req[p].served = "cache" => req[p].response = MissResponse(req[p])

\* the request reads the store page by page: the query of getAllDstRegion and
\* of getBestDstRegion without candidates, the scan of getAllData
PaginatedRead(r) ==
  \/ r.op \in {"getAllDstRegion", "getAllData"}
  \/ r.op = "getBestDstRegion" /\ r.checkAgainstAll

\* the rows a request has gathered when it leaves the loop over the pages
Gathered(r) == IF r.pc = "cacheWrite" THEN r.responseItemsArray ELSE r.dataset

\* the number of rows the read of the request is to return: the rows of the
\* partition of its source, or the rows of the table
RowsToRead(r) ==
  IF r.op = "getAllData" THEN Cardinality(DOMAIN store)
  ELSE Cardinality(DstOf(store, r.srcRegionName))

\* C26: for the paginated reads (the query by source of getBestDstRegion and
\* getAllDstRegion, the scan of getAllData), every cache write and every
\* response computed from the store is built from the rows of all the pages,
\* up to and including the first page without LastEvaluatedKey, and never from
\* a strict prefix of the pages (the store does not change in these
\* behaviours, so that these are all the rows of the partition or the table).
C26_PagesAreDrained ==
  \A p \in Procs :
    (  PaginatedRead(req[p])
     /\ (req[p].pc = "cacheWrite" \/ (req[p].pc = "done" /\ req[p].served = "store")) ) =>
      LET r == req[p]
          rows == Gathered(r)
      IN  /\ Len(rows) = RowsToRead(r)
          /\ Cardinality(Range(rows)) = Len(rows)
          /\ r.op # "getAllData" =>
               Range(rows) = StoreRows(r.srcRegionName, DstOf(store, r.srcRegionName))
          /\ r.op = "getAllData" =>
               {<<x.srcRegion, x.dstRegion>> : x \in Range(rows)} = DOMAIN store
          /\ r.pc = "cacheWrite" => Falsy(r.lastEvaluatedKey)
          /\ (r.pc = "done" /\ r.cachePut = "ok" /\ r.op # "getAllData") =>
               Len(RowsCached(cache[r.cacheKey].value)) = RowsToRead(r)

\* a 200 answer and a cache entry were built from three rows that came in
\* three pages
C26_Witness ==
  \E p \in Procs :
    /\ Answered(p, "getBestDstRegion") /\ req[p].checkAgainstAll
    /\ req[p].served = "store" /\ req[p].response.statusCode = 200
    /\ req[p].pages >= 3 /\ Len(req[p].dataset) = 3
    /\ req[p].cachePut = "ok"

\* C27: when a call on the store fails (the get of getLatency, the batchGet,
\* a page of a query or of the scan), the handler returns 500 in that step:
\* it makes no further call on the store, returns none of the rows it has
\* fetched and writes nothing to the cache.
C27_StoreFailureIs500 ==
  [][\A p \in Procs :
       (  req[p].served # "failed" /\ req'[p].served = "failed" ) =>
         /\ req'[p].pc = "done"
         /\ req'[p].response.statusCode = 500
         /\ req'[p].response.data = <<>>
         /\ req'[p].response.result = NoResponse.result
         /\ req'[p].response.ping = NoResponse.ping
         /\ req'[p].pages = req[p].pages
         /\ req'[p].cachePut = "none"
         /\ cache' = cache]_vars

\* the second page of a query failed after the first had returned rows, and
\* the request was answered 500 with the cache left without an entry
C27_Witness ==
  \E p \in Procs :
    /\ Answered(p, "getAllDstRegion")
    /\ req[p].served = "failed" /\ req[p].pages >= 1
    /\ req[p].response.statusCode = 500
    /\ req[p].cacheKey \notin DOMAIN cache

\* two requests on two instances have missed the cache, read the store and
\* written the cache under the same key
BothWrote(p, q) ==
  /\ p # q /\ WroteRows(p) /\ WroteRows(q)
  /\ req[p].cacheKey = req[q].cacheKey

\* the answers getBestDstRegion and getAllDstRegion derive from a cached value
BestFrom(value, srcRegionName) == BestHit(value, srcRegionName).scan
AllFrom(value, srcRegionName) == Range(AllHit(value, srcRegionName).resultArray)

\* a request writes the cache in this step, and the entry under its key is
\* then the value it wrote
LastWriterWins ==
  \A p \in Procs :
    (  req[p].pc = "cacheWrite" /\ req'[p].pc = "done" /\ req'[p].cachePut = "ok" ) =>
      /\ req[p].cacheKey \in DOMAIN cache'
      /\ cache'[req[p].cacheKey].value = SerializeRows(req'[p].dataset)
      /\ \A k \in DOMAIN cache \ {req[p].cacheKey} :
           k \in DOMAIN cache' /\ cache'[k] = cache[k]

SameRowsWhenReadTogether ==
  \A p, q \in Procs :
    (  BothWrote(p, q) /\ req[p].readEpoch = req[q].readEpoch ) =>
      LET src == req[p].srcRegionName
          vp == SerializeRows(req[p].dataset)
          vq == SerializeRows(req[q].dataset)
      IN  /\ Range(req[p].dataset) = Range(req[q].dataset)
          /\ BestFrom(vp, src).minPing = BestFrom(vq, src).minPing
          /\ AllFrom(vp, src) = AllFrom(vq, src)

ProberStep ==
  /\ req' = req /\ cache' = cache
  /\ \E currentRegion \in {"r1", "r2"}, dst \in Range(AllNamesExcept(Providers, <<>>)), value \in PingValues \cup {DOWN} :
       store' = Put(store, <<Name(currentRegion), dst>>, value)

\* C29: no read operation (getLatency, getBestDstRegion, getAllDstRegion,
\* getAllData) creates, overwrites or deletes a row of the latency table, in
\* any outcome; only the prober changes the table, and no step deletes a row.
C29_OnlyProberWritesStore ==
  [][ /\ (req' # req => store' = store)
      /\ (store' # store => ProberStep)
      /\ DOMAIN store \subseteq DOMAIN store' ]_vars

\* a prober has created a row and marked a destination DOWN, and a request
\* has since been answered from the latency table
C29_Witness ==
  /\ <<Name("r2"), Name("r2")>> \in DOMAIN store
  /\ \E k \in DOMAIN store : store[k] = DOWN
  /\ req["p1"].pc = "done"
  /\ req["p1"].served = "store"
  /\ req["p1"].readEpoch = epoch

\* the source region of a key `${src}+${candidates}`: what stands before "+"
SrcOfKey(cacheKey) ==
  LET plus == CHOOSE i \in 1..Len(cacheKey) :
                /\ cacheKey[i] = "+"
                /\ \A j \in 1..(i - 1) : cacheKey[j] # "+"
  IN  SubSeq(cacheKey, 1, plus - 1)

\* the (source, destination) pairs of the elements of the text of a full dump
PairsOfDump(value) ==
  {<<<<value[i + 1], "@", value[i + 3]>>, <<value[i + 5], "@", value[i + 7]>>>> :
     i \in {j \in 1..Len(value) : value[j] = "{srcProvider:"}}

\* the (source, destination) pairs of the rows held by a cache entry
PairsCached(cacheKey, value) ==
  IF cacheKey = <<"ALL_DATA">> THEN PairsOfDump(value)
  ELSE LET rows == RowsCached(value)
       IN  {<<SrcOfKey(cacheKey), rows[i].dstRegion>> : i \in 1..Len(rows)}

\* C30: in every reachable state, every (source, destination) row contained
\* in any cache entry also exists as a row of the latency table: the cache is
\* only populated from reads of the table and never holds the only copy of a
\* pair.
C30_CachedPairsAreInStore ==
  \A cacheKey \in DOMAIN cache :
    PairsCached(cacheKey, cache[cacheKey].value) \subseteq DOMAIN store

\* the cache holds a full dump and the rows of a source, the prober has
\* written since the start, and the dump holds a pair the other entry does not
C30_Witness ==
  /\ epoch > 0
  /\ <<"ALL_DATA">> \in DOMAIN cache
  /\ \E cacheKey \in DOMAIN cache \ {<<"ALL_DATA">>} :
       /\ PairsCached(cacheKey, cache[cacheKey].value) # {}
       /\ ~(PairsOfDump(cache[<<"ALL_DATA">>].value)
              \subseteq PairsCached(cacheKey, cache[cacheKey].value))

\* the rows of a dataset that are not the row of the source and carry the
\* ping of the response
RowsAtMinimum(r) ==
  {i \in Others(r.dataset, r.srcRegionName) : r.dataset[i].ping = r.response.result.ping}

\* C31: when several rows that are not the source's own share the minimum
\* ping, getBestDstRegion returns the first of them in the order of the
\* dataset it iterated (the cached rows, the rows of batchGet, or the pages of
\* the query one after the other); a later row with an equal ping never
\* replaces it.
C31_FirstMinimumWins ==
  \A p \in Procs :
    (  Answered(p, "getBestDstRegion") /\ req[p].response.statusCode = 200 ) =>
      LET r == req[p]
          ties == RowsAtMinimum(r)
      IN  /\ ties # {}
          /\ \E i \in ties :
               /\ r.dataset[i].dstRegion = ElementName(r.response.result)
               /\ \A j \in ties : i <= j

\* two rows that are not the source's own share the minimum ping and were
\* read in different pages of the query; the response names the first
C31_Witness ==
  \E p \in Procs :
    /\ Answered(p, "getBestDstRegion") /\ req[p].response.statusCode = 200
    /\ req[p].served = "store" /\ ~req[p].given.defined
    /\ req[p].pages = Len(req[p].dataset)
    /\ Cardinality(RowsAtMinimum(req[p])) > 1

\* the same with the rows of a cache entry
C31_WitnessCached ==
  \E p \in Procs :
    /\ Answered(p, "getBestDstRegion") /\ req[p].response.statusCode = 200
    /\ req[p].served = "cache"
    /\ Cardinality(RowsAtMinimum(req[p])) > 1

\* the rows a request has gathered from the pages read so far
GatheredSoFar(r) == IF r.pc = "done" THEN r.dataset ELSE r.responseItemsArray

\* the request reads one page in this step
ReadsPage(p) ==
  /\ PaginatedRead(req[p]) /\ req[p].pc \in {"query", "scan"}
  /\ req'[p].pages = req[p].pages + 1

\* the rows that follow a continuation token in the read of the request, all
\* the rows without a token
RowsAfter(r, token) ==
  IF r.op = "getAllData"
  THEN LET items == ScanItems(store, r.partitions, token)
       IN  [i \in 1..Len(items) |-> <<items[i].srcRegion, items[i].dstRegion>>]
  ELSE LET items == QueryRows(store, r.srcRegionName, token)
       IN  [i \in 1..Len(items) |-> items[i].dstRegion]

\* the keys of the rows gathered
KeysOf(r, rows) ==
  [i \in 1..Len(rows) |->
     IF r.op = "getAllData" THEN <<rows[i].srcRegion, rows[i].dstRegion>>
     ELSE rows[i].dstRegion]

\* C32: in every drain of pages (the query of getAllDstRegion and of
\* getBestDstRegion, the scan of getAllData), the first call carries no
\* ExclusiveStartKey; the call for the next page is made after the response of
\* the page before (it has its rows and its LastEvaluatedKey) and carries
\* exactly that LastEvaluatedKey, so that the page continues where the page
\* before ended; and a step reads at most one page of one request.
C32_PagesAreSequential ==
  [][\A p \in Procs :
       ReadsPage(p) =>
         LET r == req[p]
             before == KeysOf(r, GatheredSoFar(r))
             after == KeysOf(r, GatheredSoFar(req'[p]))
             new == SubSeq(after, Len(before) + 1, Len(after))
         IN  /\ r.pages = 0 => (r.lastEvaluatedKey = Undefined /\ before = <<>>)
             /\ r.pages > 0 =>
                  /\ before # <<>>
                  /\ r.lastEvaluatedKey = before[Len(before)]
             /\ SubSeq(after, 1, Len(before)) = before
             /\ new = SubSeq(RowsAfter(r, r.lastEvaluatedKey), 1, Len(new))
             /\ req'[p].pc \in {"query", "scan"} =>
                  /\ new # <<>>
                  /\ req'[p].lastEvaluatedKey = new[Len(new)]
             /\ \A q \in Procs \ {p} : req'[q] = req[q]]_vars

\* a request has read three pages, the last without LastEvaluatedKey
C32_Witness ==
  \E p \in Procs :
    /\ req[p].op \in {"getAllDstRegion", "getAllData"}
    /\ req[p].pc = "cacheWrite"
    /\ req[p].pages = 3
    /\ Len(req[p].responseItemsArray) = 3

\* the request is one that reads the cache: getAllDstRegion, getAllData, and
\* getBestDstRegion without candidates or with more than 5
UsesCache(r) ==
  \/ r.op \in {"getAllDstRegion", "getAllData"}
  \/ /\ r.op = "getBestDstRegion"
     /\ (~r.given.defined \/ Len(r.given.items) > CACHE_MIN_CANDIDATES)

\* a handler that reads the cache starts in this step, on valid parameters
StartsWithCache(p) ==
  /\ req[p].pc = "idle" /\ req'[p].pc # "idle"
  /\ UsesCache(req'[p])
  /\ req'[p].response.statusCode # 400

\* a row of a cached dataset from which getBestDstRegion can take a result
Qualifies(row, srcRegionName) ==
  row.dstRegion # srcRegionName /\ row.ping \in PingValues

\* the value the cache holds for the request yields a result: a live item
\* read without failure that, for getAllDstRegion, parses, and for
\* getBestDstRegion, parses and holds a qualifying row
YieldsResult(r) ==
  /\ r.cacheGet = "ok"
  /\ r.cacheKey \in DOMAIN cache
  /\ cache[r.cacheKey].ttl > now
  /\ LET value == cache[r.cacheKey].value
     IN  /\ value # <<>> /\ value # Undefined
         /\ r.op # "getAllData" => ~ParseCachedThrows(value)
         /\ r.op = "getBestDstRegion" =>
              \E row \in Range(ParseCached(value)) : Qualifies(row, r.srcRegionName)

\* C33: for getBestDstRegion (more than 5 or no candidates), getAllDstRegion
\* and getAllData the cache is read before any read of the latency table;
\* when the cached value yields a result the request is answered without a
\* read of the table and without a write of the cache (the item and its ttl
\* stay as they are); the table is read only after a miss, a value that does
\* not parse or a cached dataset without a qualifying row.
C33_CacheFirst ==
  [][\A p \in Procs :
       /\ StartsWithCache(p) =>
            /\ req'[p].cacheGet \in {"ok", "failed"}
            /\ req'[p].pages = 0
            /\ cache' = cache /\ store' = store
            /\ YieldsResult(req'[p]) =>
                 /\ req'[p].pc = "done"
                 /\ req'[p].served = "cache"
                 /\ req'[p].cachePut = "none"
            /\ ~YieldsResult(req'[p]) =>
                 /\ req'[p].pc \in {"query", "batchGet", "scan"}
                 /\ req'[p].served = "none"
       /\ (  UsesCache(req[p]) /\ req'[p].pages > req[p].pages ) =>
            /\ req[p].cacheGet \in {"ok", "failed"}
            /\ req[p].served # "cache"
       /\ (  UsesCache(req[p]) /\ req[p].served = "cache" ) =>
            (cache' = cache /\ req'[p].pages = 0)]_vars

\* getBestDstRegion has been answered from the cache, the item is as it was
\* and nothing was read from the latency table
C33_Witness ==
  \E p \in Procs :
    /\ Answered(p, "getBestDstRegion") /\ req[p].response.statusCode = 200
    /\ req[p].served = "cache" /\ req[p].pages = 0 /\ req[p].cachePut = "none"
    /\ YieldsResult(req[p])

\* getBestDstRegion read the latency table after it found a cached dataset
\* without a qualifying row
C33_WitnessUnqualified ==
  \E p \in Procs :
    /\ req[p].op = "getBestDstRegion" /\ req[p].pages > 0
    /\ req[p].cacheGet = "ok"
    /\ req[p].cacheKey \in DOMAIN cache
    /\ cache[req[p].cacheKey].value \in UnreachableValues
    /\ cache[req[p].cacheKey].ttl > now

\* a cycle of a prober of region r1 runs in this step
ProbeCycle == epoch' = epoch + 1

\* C34: in every cycle the prober writes one row per destination of the
\* catalog, its own region included, under the key (aws@<its region>,
\* provider@region), with the measured latency or DOWN; no destination is
\* left without a write, a destination whose probe failed included, and the
\* rows of other sources are not touched.
C34_OneWritePerDestination ==
  [][ProbeCycle =>
       /\ \A dst \in CatalogDestinations :
            /\ <<Name("r1"), dst>> \in DOMAIN store'
            /\ store'[<<Name("r1"), dst>>] \in PingValues \cup {DOWN}
       /\ \A k \in DOMAIN store : k[1] # Name("r1") => (k \in DOMAIN store' /\ store'[k] = store[k])
       /\ \A k \in DOMAIN store' : k[1] # Name("r1") => k \in DOMAIN store]_vars

\* a cycle of the TCP prober changes nothing but rows of its own region, and
\* writes a number for every destination that it writes
C34_OwnRowsOnly ==
  [][ProbeCycle =>
       /\ \A k \in DOMAIN store : k \in DOMAIN store'
       /\ \A k \in DOMAIN store' :
            (k \notin DOMAIN store \/ store'[k] # store[k]) =>
              /\ k[1] = Name("r1") /\ k[2] \in CatalogDestinations
              /\ store'[k] \in PingValues \cup {DOWN}]_vars

\* the response of getBestDstRegion for a scan that found no row at all, as
\* over an empty latency table
EmptyStoreOutcome ==
  BestFinish(ScanRows(<<>>, Undefined, ScanInit).regionOfMinPing,
             ScanRows(<<>>, Undefined, ScanInit).minPing)

\* the rows of the dataset that the response names
NamedRows(r) ==
  {i \in 1..Len(r.dataset) : r.dataset[i].dstRegion = ElementName(r.response.result)}

C35_WitnessSkipped ==
  \E p \in Procs :
    /\ Answered(p, "getBestDstRegion") /\ req[p].served = "cache"
    /\ req[p].response.statusCode = 200
    /\ \E i \in Others(req[p].dataset, req[p].srcRegionName) : req[p].dataset[i].ping = DOWN

\* the same with rows read by batchGet
C35_WitnessBatch ==
  \E p \in Procs :
    /\ Answered(p, "getBestDstRegion") /\ req[p].served = "store"
    /\ req[p].given.defined
    /\ req[p].response.statusCode = 200
    /\ \E i \in Others(req[p].dataset, req[p].srcRegionName) : req[p].dataset[i].ping = DOWN

\* C36: for getBestDstRegion with a candidate list, every 200 response
\* names a destination that is one of the candidates of the request
\* (lowercased), whatever requests came before and filled the cache: an entry
\* written for another source or another set of candidates is never used.
C36_BestIsACandidate ==
  \A p \in Procs :
    (  Answered(p, "getBestDstRegion") /\ req[p].given.defined
     /\ req[p].response.statusCode = 200 ) =>
      ElementName(req[p].response.result) \in Range(MapLower(req[p].given.items))

\* the same for the requests whose candidates are all region identifiers of
\* the catalog
C36_BestIsACatalogCandidate ==
  \A p \in Procs :
    (  Answered(p, "getBestDstRegion") /\ req[p].given.defined
     /\ req[p].response.statusCode = 200
     /\ Range(MapLower(req[p].given.items)) \subseteq CatalogNames ) =>
      ElementName(req[p].response.result) \in Range(MapLower(req[p].given.items))

\* the candidates a cache key `${src}+${candidates}` is made of
CandidatesOfKey(cacheKey) ==
  LET plus == CHOOSE i \in 1..Len(cacheKey) :
                cacheKey[i] = "+" /\ \A j \in 1..(i - 1) : cacheKey[j] # "+"
  IN  Range(split(SubSeq(cacheKey, plus + 1, Len(cacheKey)), ","))

\* getBestDstRegion has accepted the candidate list of the request
AcceptedCandidates(r) ==
  /\ r.op = "getBestDstRegion" /\ r.given.defined
  /\ r.response.statusCode # 400

\* C37: every element of a candidate list that validateCandidates accepts
\* is, lowercased, exactly one region identifier provider@code of the
\* catalog (an element with text after a valid provider@code is rejected), so
\* that every key sent to batchGet and every element of a cache key is a
\* region identifier of the catalog.
C37_AcceptedAreCatalogNames ==
  \A p \in Procs :
    AcceptedCandidates(req[p]) =>
      LET r == req[p]
      IN  /\ Range(MapLower(r.given.items)) \subseteq CatalogNames
          /\ r.pc = "batchGet" => Range(MapLower(r.dstCandidate)) \subseteq CatalogNames
          /\ r.cacheKey # Undefined => CandidatesOfKey(r.cacheKey) \subseteq CatalogNames

\* the request puts its rows in the cache in this step
PutsRows(p) ==
  /\ req[p].pc = "cacheWrite" /\ req'[p].pc = "done"
  /\ req'[p].cachePut = "ok"

\* the entry of the key of p holds the rows that q read and wrote
HoldsRowsOf(q, p) ==
  /\ req[q].pc = "done" /\ req[q].cachePut = "ok"
  /\ req[q].cacheKey = req[p].cacheKey
  /\ req[p].cacheKey \in DOMAIN cache
  /\ cache[req[p].cacheKey].value = SerializeRows(req[q].dataset)

\* C38: the entry of a key never goes back in time: in every interleaving of
\* concurrent requests and prober updates, once the cache holds rows read from
\* the latency table at some point, no later write of the cache replaces them
\* with rows that were read from the table at an earlier point.
C38_CacheNeverGoesBack ==
  [][\A p, q \in Procs :
       (  p # q /\ PutsRows(p) /\ HoldsRowsOf(q, p) ) =>
         req[p].readEpoch >= req[q].readEpoch]_vars

\* the request is in the loop over the pages
Draining(p) == req[p].pc \in {"query", "scan"}

\* a step of the loop: one call, whose response has a LastEvaluatedKey or
\* not, or which fails
DrainStep(p) == Draining(p) /\ req'[p] # req[p]

\* the loop goes on exactly when the call of the step returned a page with a
\* LastEvaluatedKey; each step that returns a page is one call for one page
DrainEndsAtLastPage ==
  \A p \in Procs :
    DrainStep(p) =>
      /\ req'[p].pc \in {"query", "scan"} <=>
           (req'[p].pages = req[p].pages + 1 /\ ~Falsy(req'[p].lastEvaluatedKey))
      /\ req'[p].served = "failed" =>
           (req'[p].pc = "done" /\ req'[p].pages = req[p].pages)
      /\ req'[p].served # "failed" => req'[p].pages = req[p].pages + 1
      /\ req'[p].pages \in {req[p].pages, req[p].pages + 1}

\* C39: every request that reads the latency table page by page ends: the
\* loop ends at the first page without LastEvaluatedKey and at the first call
\* that fails, it makes one call per page, and, the table returning a page
\* without LastEvaluatedKey after finitely many pages, every loop is left and
\* the request ends.
C39_DrainsTerminate ==
  /\ [][DrainEndsAtLastPage]_vars
  /\ \A p \in Procs : Draining(p) ~> (req[p].pc = "done")

\* a request has ended after a loop of three pages
C39_Witness ==
  \E p \in Procs :
    /\ req[p].pc = "done" /\ req[p].served = "store"
    /\ PaginatedRead(req[p])
    /\ req[p].pages = 3

\* the headers of the request carry X-RapidAPI-Proxy-Secret, under any
\* spelling of the name, with this value
Carries(headers, value) ==
  \E name \in DOMAIN headers :
    LowerHeaderName(name) = "x-rapidapi-proxy-secret" /\ headers[name] = value

\* C40: the authorizer answers with an Allow policy only for a request that
\* carries the header X-RapidAPI-Proxy-Secret with the value of the configured
\* secret; a request without the header is Unauthorized in every
\* configuration, also when no secret is configured.
C40_AllowOnlyWithSecret ==
  \A p \in Procs :
    Answered(p, "authorize") =>
      LET secret == req[p].params[1]
          headers == req[p].params[2]
      IN  /\ req[p].response = AllowPolicy =>
               (secret # Undefined /\ Carries(headers, secret))
          /\ DOMAIN headers = {} => req[p].response = Unauthorized

\* the same for the deployments in which the secret is configured
C40_AllowOnlyWithSecretWhenConfigured ==
  \A p \in Procs :
    (  Answered(p, "authorize") /\ req[p].params[1] # Undefined ) =>
      LET secret == req[p].params[1]
          headers == req[p].params[2]
      IN  /\ req[p].response = AllowPolicy => Carries(headers, secret)
          /\ DOMAIN headers = {} => req[p].response = Unauthorized

====
